---- MODULE Spec2Model ----
(***************************************************************************)
(* Model of the Linux updater of Codex Desktop (src/linux-updater.js).     *)
(*                                                                         *)
(* The updater runs on Electron's single event loop, so every synchronous  *)
(* stretch of JavaScript is one atomic action.  checkForUpdates has one    *)
(* suspension point (await fetchAppcast()), so a check is two actions:     *)
(* its start and the continuation that runs when the fetch settles.        *)
(* dialog.showMessageBox returns a promise, so the .then() callback of the *)
(* install prompt is a third, separate action.  Timers hold the time that  *)
(* remains until they are due; Advance lets time pass up to the next due   *)
(* timer.                                                                  *)
(***************************************************************************)
EXTENDS Integers, Sequences, FiniteSets, Bags, TLC

\* ------------------------------------------------------------------------
\* Bounds of the model
\* ------------------------------------------------------------------------

\* checks that can be in flight (awaiting the fetch) together
MaxInFlight == 2
\* install prompts that can be open together
MaxPrompts == 1
\* runInstaller calls tracked in one process
MaxInstalls == 2
\* browser windows
MaxWindows == 1

\* ------------------------------------------------------------------------
\* Program constants
\* ------------------------------------------------------------------------

CHECK_INTERVAL_MS == 15 * 60 * 1000
StartupDelayMs == 30000
RelaunchDelayMs == 1000

MessageFromView == "codex_desktop:message-from-view"
CheckForUpdatesChannel == "codex_desktop:check-for-updates"
MessageForView == "codex_desktop:message-for-view"

\* ------------------------------------------------------------------------
\* Strings and paths.  A string is a sequence of one-character strings, a
\* path is a sequence of path components.
\* ------------------------------------------------------------------------

Digits == {"0", "1", "2", "3", "4", "5", "6", "7", "8", "9"}

DigitVal(c) ==
  CASE c = "0" -> 0 [] c = "1" -> 1 [] c = "2" -> 2 [] c = "3" -> 3
    [] c = "4" -> 4 [] c = "5" -> 5 [] c = "6" -> 6 [] c = "7" -> 7
    [] c = "8" -> 8 [] c = "9" -> 9

\* length of the longest prefix of s[from..] made of digits
RECURSIVE DigitRun(_, _)
DigitRun(s, from) ==
  IF from > Len(s) \/ s[from] \notin Digits THEN 0
  ELSE 1 + DigitRun(s, from + 1)

RECURSIVE DecimalValue(_)
DecimalValue(ds) ==
  IF ds = <<>> THEN 0
  ELSE 10 * DecimalValue(SubSeq(ds, 1, Len(ds) - 1)) + DigitVal(ds[Len(ds)])

\* parseInt(s, 10): the value of the leading digits, <<>> for NaN
ParseInt(s) ==
  LET n == DigitRun(s, 1)
  IN  IF n = 0 THEN <<>> ELSE <<DecimalValue(SubSeq(s, 1, n))>>

dirname(p) == SubSeq(p, 1, Len(p) - 1)

RECURSIVE resolve(_, _)
resolve(base, segs) ==
  IF segs = <<>> THEN base
  ELSE IF Head(segs) = ".." THEN resolve(dirname(base), Tail(segs))
  ELSE resolve(Append(base, Head(segs)), Tail(segs))

\* app.getAppPath(): the app.asar inside the install directory
AppPath == <<"repo", "codex-app", "resources", "app.asar">>


\* ------------------------------------------------------------------------
\* The world outside the module
\* ------------------------------------------------------------------------

\* An installation: process.env.CODEX_LINUX_INSTALLER_PATH (unset, or the
\* path start.sh exports; the empty string counts as unset) and the
\* package.json of the bundle (unreadable, not JSON, or an object whose
\* codexBuildNumber is absent or has the given text)
Installations ==
  { [installer |-> [set |-> FALSE, value |-> <<>>],
     pkg |-> [kind |-> "missing", present |-> FALSE, text |-> <<>>]],
    [installer |-> [set |-> TRUE, value |-> <<"home", "src", "install.sh">>],
     pkg |-> [kind |-> "json", present |-> TRUE, text |-> <<"0", "2">>]] }

\* Tokens of an appcast document: "O" is the text <sparkle:version>, "C" is
\* </sparkle:version>, "x" is any other text, the rest are digits.
\* What package.json of the bundle can hold: no file, text that is not
\* JSON, an object without codexBuildNumber, a codexBuildNumber that is not a
\* number, and the builds 0 and 2
Packages ==
  { [kind |-> "missing", present |-> FALSE, text |-> <<>>],
    [kind |-> "garbage", present |-> FALSE, text |-> <<>>],
    [kind |-> "json", present |-> FALSE, text |-> <<>>],
    [kind |-> "json", present |-> TRUE, text |-> <<"x">>],
    [kind |-> "json", present |-> TRUE, text |-> <<"0">>],
    [kind |-> "json", present |-> TRUE, text |-> <<"0", "2">>] }

\* These are the appcast documents the server may answer with.
Feeds ==
  { <<>>,
    <<"x", "x">>,
    <<"O", "C">>,
    <<"O", "2">>,
    <<"2", "C">>,
    <<"O", "x", "C">>,
    <<"O", "2", "x", "C">>,
    <<"O", "2", "C">>,
    <<"O", "0", "C">>,
    <<"x", "O", "0", "3", "C", "x">>,
    <<"O", "x", "C", "O", "3", "C", "O", "2", "C">> }

\* How https.get(APPCAST_URL) can settle: a transport error, or a response
\* with a status code and a body
HttpStatuses == {200, 404}
FetchOutcomes ==
  {[kind |-> "error", status |-> 0, body |-> <<>>]}
    \cup {[kind |-> "response", status |-> c, body |-> <<>>] :
             c \in HttpStatuses \ {200}}
    \cup {[kind |-> "response", status |-> 200, body |-> xml] : xml \in Feeds}

Windows == 1 .. MaxWindows
Channels == {MessageFromView, CheckForUpdatesChannel, "codex_desktop:other"}

\* messages a renderer sends on an invoke channel
Messages ==
  { [present |-> FALSE, type |-> ""],
    [present |-> TRUE,  type |-> ""],
    [present |-> TRUE,  type |-> "install-app-update"],
    [present |-> TRUE,  type |-> "fetch"] }

VARIABLES
  env,                 \* process.env and the bundle metadata
  files,               \* paths that exist on disk
  appState,            \* "loaded" (module evaluated), "ready", "exited"
  currentBuildNumber,  \* <<>> is null, <<n>> the cached build
  updateAvailable,
  latestRemoteBuild,   \* <<>> is null
  inflight,            \* bag of the checks suspended in await fetchAppcast()
  everNewer,           \* history: some completed check saw remote > local
  windows,             \* per window: "closed", "live" or "destroyed"
  prompts,             \* open install prompts (unresolved showMessageBox)
  children,            \* installer subprocesses spawned by this process
  installLog,          \* steps of the install trigger, in order
  relaunches,          \* app.relaunch() calls
  startupTimer,        \* <<>> not armed, <<ms>> time left
  intervalTimer,
  relaunchTimers,      \* time left of each pending relaunch timer
  handlers,            \* handlers registered with the real ipcMain.handle
  menu,                \* the application menu as passed to Electron
  done,                \* what the handler that ran last did
  stampFile,           \* install.sh: $INSTALL_DIR/.install-stamp
  installDir,          \* install.sh: what the pipeline puts into $INSTALL_DIR
  workDir,             \* install.sh: $WORK_DIR of the current run
  run,                 \* install.sh: the current (or last) run of main
  dmgCache,            \* install.sh: what each Codex.dmg next to a script holds
  webview              \* start.sh: the launches and the webview HTTP server

updaterVars == <<env, files, appState, currentBuildNumber, updateAvailable,
                 latestRemoteBuild, inflight, everNewer, windows, prompts,
                 children, installLog, relaunches, startupTimer,
                 intervalTimer, relaunchTimers, handlers, menu, done>>

updaterVarsButFiles == <<env, appState, currentBuildNumber, updateAvailable,
                        latestRemoteBuild, inflight, everNewer, windows,
                        prompts, children, installLog, relaunches,
                        startupTimer, intervalTimer, relaunchTimers,
                        handlers, menu, done>>

pipelineVars == <<stampFile, installDir, workDir, run, dmgCache>>

vars == <<updaterVars, pipelineVars, webview>>

\* ------------------------------------------------------------------------
\* Helpers of the updater
\* ------------------------------------------------------------------------

getInstallerPath ==
  IF env.installer.set /\ env.installer.value # <<>>
  THEN env.installer.value
  ELSE resolve(dirname(AppPath), <<"..", "..", "install.sh">>)

DmgPath(installerPath) == resolve(dirname(installerPath), <<"Codex.dmg">>)

\* lines 42-48: the value getCurrentBuildNumber computes on a cache miss
ReadBuildNumber(pkg) ==
  IF pkg.kind # "json" THEN 0
  ELSE LET n == IF pkg.present THEN ParseInt(pkg.text) ELSE <<>>
       IN  IF n = <<>> \/ n[1] = 0 THEN 0 ELSE n[1]

\* getCurrentBuildNumber without the test of line 41
getCurrentBuildNumber_Reread == ReadBuildNumber(env.pkg)

getCurrentBuildNumber ==
  IF currentBuildNumber # <<>> THEN currentBuildNumber[1]
  ELSE ReadBuildNumber(env.pkg)

\* positions where /<sparkle:version>(\d+)<\/sparkle:version>/ matches
MatchStarts(xml) ==
  { i \in 1 .. Len(xml) :
      /\ xml[i] = "O"
      /\ DigitRun(xml, i + 1) >= 1
      /\ i + 1 + DigitRun(xml, i + 1) <= Len(xml)
      /\ xml[i + 1 + DigitRun(xml, i + 1)] = "C" }

\* parseRemoteBuild falling back to build 0 when nothing matches
parseRemoteBuild_Default(xml) ==
  IF MatchStarts(xml) = {} THEN <<0>>
  ELSE LET i == CHOOSE j \in MatchStarts(xml) : \A k \in MatchStarts(xml) : j <= k
       IN  ParseInt(SubSeq(xml, i + 1, i + DigitRun(xml, i + 1)))

parseRemoteBuild(xml) ==
  IF MatchStarts(xml) = {} THEN <<>>
  ELSE LET i == CHOOSE j \in MatchStarts(xml) : \A k \in MatchStarts(xml) : j <= k
       IN  ParseInt(SubSeq(xml, i + 1, i + DigitRun(xml, i + 1)))

\* ------------------------------------------------------------------------
\* Core update check (checkForUpdates, lines 79-128)
\* ------------------------------------------------------------------------

NoPath == <<>>
Nothing == [kind |-> "none"]

Dialog(type, title, buttons, path) ==
  [type |-> type, title |-> title, buttons |-> buttons, path |-> path]

\* line 80
SilentOf(opts) == opts.given /\ opts.silent

\* lines 52-67: the fetch rejects on a transport error and on any status
\* other than 200, and resolves with the body otherwise
FetchRejects(outcome) == outcome.kind = "error" \/ outcome.status # 200

\* lines 86-95 without the test of silent
FetchFailureDialogs_Always(silent) ==
  <<Dialog("error", "Update Check Failed", <<>>, NoPath)>>

\* lines 86-95
FetchFailureDialogs(silent) ==
  IF ~silent THEN <<Dialog("error", "Update Check Failed", <<>>, NoPath)>>
  ELSE <<>>

\* lines 98-107
ParseFailureDialogs(silent) ==
  IF ~silent THEN <<Dialog("error", "Update Check Failed", <<>>, NoPath)>>
  ELSE <<>>

\* lines 120-126 with the notice shown twice
NoUpdateDialogs_Twice(silent) ==
  IF ~silent
  THEN <<Dialog("info", "No Updates Available", <<>>, NoPath),
         Dialog("info", "No Updates Available", <<>>, NoPath)>>
  ELSE <<>>

\* lines 120-126
NoUpdateDialogs(silent) ==
  IF ~silent THEN <<Dialog("info", "No Updates Available", <<>>, NoPath)>>
  ELSE <<>>

\* the comparison of line 111 written as >=
RemoteIsNewer_OrEqual(remote, local) == remote >= local

\* line 111
RemoteIsNewer(remote, local) == remote > local

\* line 112 written as updateAvailable = remote > local
FlagAfterCheck_Assign(flag, newer) == newer

\* line 112 and the absence of any other write to updateAvailable
FlagAfterCheck(flag, newer) == IF newer THEN TRUE ELSE flag

\* line 109 and the early returns of lines 94 and 106
LatestAfterCheck(latest, parsed, remote) == IF parsed THEN remote ELSE latest

\* lines 134-145 with the try/catch around the whole loop: the first send
\* that throws ends the loop
notifyRendererUpdateReady_CatchOutsideLoop(wins) ==
  { [win |-> w, channel |-> MessageForView,
     type |-> "app-update-ready-changed", isUpdateReady |-> TRUE] :
      w \in {v \in DOMAIN wins :
               /\ wins[v] = "live"
               /\ \A u \in DOMAIN wins : u < v => wins[u] # "destroyed"} }

\* lines 134-145: one message to every window whose webContents still
\* works; the send to a destroyed window throws and is swallowed
notifyRendererUpdateReady(wins) ==
  { [win |-> w, channel |-> MessageForView,
     type |-> "app-update-ready-changed", isUpdateReady |-> TRUE] :
      w \in {v \in DOMAIN wins : wins[v] = "live"} }

\* lines 151-167: the dialog promptInstallUpdate opens
InstallPromptDialog(installerPath, installerExists) ==
  IF installerExists
  THEN Dialog("info", "Update Available", <<"Install & Restart", "Later">>, NoPath)
  ELSE Dialog("info", "Update Available", <<"OK">>, installerPath)

promptInstallUpdate(local, remote) ==
  LET installerPath == getInstallerPath
      installerExists == installerPath \in files
  IN  [installerPath |-> installerPath, installerExists |-> installerExists,
       dialog |-> InstallPromptDialog(installerPath, installerExists)]

\* lines 114-116: prompts opened by a check that found a newer build
PromptsOfCheck(silent, local, remote) ==
  IF ~silent THEN <<promptInstallUpdate(local, remote)>> ELSE <<>>

Room == BagCardinality(inflight) < MaxInFlight

\* a document holds a version token when an opening tag is followed by one
\* or more digits and the closing tag
HasVersionToken(xml) ==
  \E i, j \in 1 .. Len(xml) :
    /\ j > i + 1
    /\ xml[i] = "O"
    /\ xml[j] = "C"
    /\ \A k \in (i + 1) .. (j - 1) : xml[k] \in Digits

\* what the server did, as the claims about failures name it
FeedClass(outcome) ==
  IF outcome.kind = "error" THEN "unreachable"
  ELSE IF outcome.status # 200 THEN "status"
  ELSE IF HasVersionToken(outcome.body) THEN "token" ELSE "notoken"

\* lines 79-85: the synchronous part up to await fetchAppcast()
checkForUpdates(opts, origin) ==
  LET c == [silent |-> SilentOf(opts), local |-> getCurrentBuildNumber,
            net |-> "open"]
  IN  /\ appState = "ready"
      /\ Room
      /\ currentBuildNumber' = <<getCurrentBuildNumber>>
      /\ inflight' = inflight (+) SetToBag({c})
      /\ done' = [kind |-> "start", origin |-> origin, silent |-> c.silent,
                  local |-> c.local]

\* lines 83-97: what the try block and parseRemoteBuild leave behind for
\* one behaviour of the server
Fetched(outcome) ==
  [failed |-> FetchRejects(outcome),
   remote |-> IF FetchRejects(outcome) THEN <<>>
              ELSE parseRemoteBuild(outcome.body),
   feed |-> FeedClass(outcome)]

\* the distinct results of lines 83-97 over all behaviours of the server
FetchResults == {Fetched(outcome) : outcome \in FetchOutcomes}

\* lines 83-107 with a catch block that calls fetchAppcast() again: the
\* check whose fetch failed or whose feed did not parse stays suspended
RequestsAfterFetch_RetryInline(requests, c, fetched) ==
  IF fetched.failed \/ fetched.remote = <<>>
  THEN requests
  ELSE requests (-) SetToBag({c})

\* lines 83-107: the one await fetchAppcast() of a check has settled, and
\* neither the catch block nor the unparsable branch fetches again
RequestsAfterFetch(requests, c, fetched) == requests (-) SetToBag({c})

\* lines 86-128: the continuation that runs when the fetch has settled
CheckResume(c, fetched) ==
  LET silent  == c.silent
      local   == c.local
      failed  == fetched.failed
      remote  == fetched.remote
      parsed  == ~failed /\ remote # <<>>
      newer   == parsed /\ RemoteIsNewer(remote[1], local)
      opened  == IF newer THEN PromptsOfCheck(silent, local, remote[1]) ELSE <<>>
      shown   == IF failed THEN FetchFailureDialogs(silent)
                 ELSE IF ~parsed THEN ParseFailureDialogs(silent)
                 ELSE IF newer THEN [i \in 1 .. Len(opened) |-> opened[i].dialog]
                 ELSE NoUpdateDialogs(silent)
  IN  /\ appState = "ready"
      /\ BagIn(c, inflight)
      /\ c.net # "aborted"
      /\ Len(prompts) + Len(opened) <= MaxPrompts
      /\ inflight' = RequestsAfterFetch(inflight, c, fetched)
      /\ latestRemoteBuild' = LatestAfterCheck(latestRemoteBuild, parsed, remote)
      /\ updateAvailable' = IF parsed THEN FlagAfterCheck(updateAvailable, newer)
                            ELSE updateAvailable
      /\ prompts' = prompts \o opened
      /\ everNewer' = (everNewer \/ (parsed /\ remote[1] > local))
      /\ done' = [kind |-> "check", silent |-> silent, local |-> local,
                  feed |-> fetched.feed, remote |-> remote,
                  settled |-> "resolved", isUpdateAvailable |-> newer,
                  dialogs |-> shown,
                  sent |-> IF newer THEN notifyRendererUpdateReady(windows)
                           ELSE {}]
      /\ UNCHANGED <<webview, pipelineVars, env, files, appState, currentBuildNumber, windows,
                     children, installLog, relaunches, startupTimer,
                     intervalTimer, relaunchTimers, handlers, menu>>

FetchSettles ==
  \E c \in BagToSet(inflight), fetched \in FetchResults : CheckResume(c, fetched)

\* lines 54-65: the events of the request that have a listener.  The
\* timeout option makes the request emit "timeout" when its socket has been
\* idle for 15 s; the request goes on until somebody destroys it.
RequestListeners == {"response", "error"}

\* the socket of an open request has been idle for the timeout
SocketTimeout(c) ==
  /\ appState = "ready"
  /\ BagIn(c, inflight)
  /\ c.net = "open"
  /\ IF "timeout" \in RequestListeners
     THEN CheckResume(c, Fetched([kind |-> "error", status |-> 0, body |-> <<>>]))
     ELSE /\ inflight' = (inflight (-) SetToBag({c}))
                           (+) SetToBag({[c EXCEPT !.net = "idle"]})
          /\ done' = [kind |-> "timeout", silent |-> c.silent, local |-> c.local]
          /\ UNCHANGED <<webview, pipelineVars, env, files, appState, currentBuildNumber,
                         updateAvailable, latestRemoteBuild, everNewer, windows,
                         prompts, children, installLog, relaunches,
                         startupTimer, intervalTimer, relaunchTimers, handlers,
                         menu>>

SocketTimesOut == \E c \in BagToSet(inflight) : SocketTimeout(c)

\* lines 61-63: the events of the response that have a listener
ResponseListeners == {"data", "end"}

\* The connection breaks after the response head with status 200 has
\* arrived.  The response emits "aborted" and then "error"; an "error"
\* event without a listener is thrown by the emitter, inside a stream
\* callback of the main process, and "end" never comes.
ResponseAborted(c) ==
  /\ appState = "ready"
  /\ BagIn(c, inflight)
  /\ c.net \in {"open", "idle"}
  /\ IF "error" \in ResponseListeners
     THEN CheckResume(c, Fetched([kind |-> "error", status |-> 0, body |-> <<>>]))
     ELSE /\ inflight' = (inflight (-) SetToBag({c}))
                           (+) SetToBag({[c EXCEPT !.net = "aborted"]})
          /\ done' = [kind |-> "uncaught", silent |-> c.silent,
                      local |-> c.local]
          /\ UNCHANGED <<webview, pipelineVars, env, files, appState, currentBuildNumber,
                         updateAvailable, latestRemoteBuild, everNewer, windows,
                         prompts, children, installLog, relaunches,
                         startupTimer, intervalTimer, relaunchTimers, handlers,
                         menu>>

ConnectionBreaks == \E c \in BagToSet(inflight) : ResponseAborted(c)

\* ------------------------------------------------------------------------
\* Install flow (lines 151-196)
\* ------------------------------------------------------------------------

\* lines 175-195 with the relaunch timer armed before the installer starts
RunInstallerSteps_TimerFirst == <<"unlink", "setTimeout", "spawn">>

\* lines 175-195: what runInstaller does, in program order
RunInstallerSteps == <<"unlink", "spawn", "setTimeout">>

\* line 185: the subprocess execFile starts
InstallerChild(installerPath) ==
  [cmd |-> "bash", args |-> <<installerPath, "--force">>, detached |-> TRUE]

StepsNamed(steps, op) == {i \in 1 .. Len(steps) : steps[i] = op}

\* the directory of install.sh is one the user of the application cannot
\* write to (an installation made by another user); unlink then throws
ReadOnlyScriptDir == "readonly" \in DOMAIN env /\ env.readonly

\* lines 178-182: fs.unlinkSync inside try/catch: the file is removed, or
\* unlinkSync throws (no such file, no permission) and the error is dropped
unlinkSync(paths, path) ==
  IF ReadOnlyScriptDir THEN paths ELSE paths \ {path}

runInstaller(installerPath) ==
  LET steps == RunInstallerSteps
  IN  /\ Len(children) + Cardinality(StepsNamed(steps, "spawn")) <= MaxInstalls
      /\ files' = IF StepsNamed(steps, "unlink") # {}
                  THEN unlinkSync(files, DmgPath(installerPath)) ELSE files
      /\ children' = children \o
           [i \in 1 .. Cardinality(StepsNamed(steps, "spawn")) |->
              InstallerChild(installerPath)]
      /\ relaunchTimers' = relaunchTimers \o
           [i \in 1 .. Cardinality(StepsNamed(steps, "setTimeout")) |->
              RelaunchDelayMs]
      /\ installLog' = installLog \o steps

NoInstall == UNCHANGED <<files, children, relaunchTimers, installLog>>

\* what a handler did to the install state
InstallEffect ==
  [spawned |-> SubSeq(children', Len(children) + 1, Len(children')),
   logged |-> SubSeq(installLog', Len(installLog) + 1, Len(installLog')),
   timers |-> SubSeq(relaunchTimers', Len(relaunchTimers) + 1, Len(relaunchTimers')),
   removed |-> files \ files']

RemoveAt(q, i) == SubSeq(q, 1, i - 1) \o SubSeq(q, i + 1, Len(q))

\* lines 168-172 without the test of installerExists
ConfirmsInstall_Blind(installerExists, response) == response = 0

\* lines 168-172
ConfirmsInstall(installerExists, response) == installerExists /\ response = 0

\* the user answers open prompt i with the button of index response
PromptRespond(i, response) ==
  LET p == prompts[i]
  IN  /\ appState = "ready"
      /\ response \in 0 .. (Len(p.dialog.buttons) - 1)
      /\ prompts' = RemoveAt(prompts, i)
      /\ IF ConfirmsInstall(p.installerExists, response)
         THEN runInstaller(p.installerPath)
         ELSE NoInstall
      /\ done' = [kind |-> "prompt", prompt |-> p, response |-> response,
                  effect |-> InstallEffect]
      /\ UNCHANGED <<webview, pipelineVars, env, appState, currentBuildNumber, updateAvailable,
                     latestRemoteBuild, inflight, everNewer, windows,
                     relaunches, startupTimer, intervalTimer, handlers, menu>>

PromptAnswered ==
  \E i \in 1 .. Len(prompts), response \in 0 .. 1 : PromptRespond(i, response)

\* lines 192-195: the callback of the relaunch timer
RelaunchSteps == <<"relaunch", "exit">>

RelaunchFire(i) ==
  /\ appState = "ready"
  /\ relaunchTimers[i] = 0
  /\ relaunchTimers' = RemoveAt(relaunchTimers, i)
  /\ installLog' = installLog \o RelaunchSteps
  /\ relaunches' = relaunches + Cardinality(StepsNamed(RelaunchSteps, "relaunch"))
  /\ appState' = IF StepsNamed(RelaunchSteps, "exit") # {} THEN "exited"
                 ELSE appState
  /\ done' = [kind |-> "relaunch"]
  /\ UNCHANGED <<webview, pipelineVars, env, files, currentBuildNumber, updateAvailable,
                 latestRemoteBuild, inflight, everNewer, windows, prompts,
                 children, startupTimer, intervalTimer, handlers, menu>>

RelaunchTimerFires == \E i \in 1 .. Len(relaunchTimers) : RelaunchFire(i)

\* lines 192-195, app.relaunch() and then app.exit(0): Electron starts the
\* application again when the process has exited.  The new process loads
\* the module afresh, so every variable of the module has its initial
\* value; the detached installers, the files and the environment stay.
Relaunched ==
  /\ appState = "exited"
  /\ relaunches >= 1
  /\ relaunches < MaxInstalls
  /\ appState' = "loaded"
  /\ currentBuildNumber' = <<>>
  /\ updateAvailable' = FALSE
  /\ latestRemoteBuild' = <<>>
  /\ inflight' = EmptyBag
  /\ everNewer' = FALSE
  /\ windows' = [w \in DOMAIN windows |-> "closed"]
  /\ prompts' = <<>>
  /\ children' = <<>>
  /\ startupTimer' = <<>>
  /\ intervalTimer' = <<>>
  /\ relaunchTimers' = <<>>
  /\ done' = [kind |-> "relaunched"]
  /\ UNCHANGED <<webview, pipelineVars, env, files, installLog, relaunches, handlers,
                 menu>>

\* ------------------------------------------------------------------------
\* IPC (lines 204-242)
\* ------------------------------------------------------------------------

\* the options each call site passes to checkForUpdates
IpcCheckOpts == [given |-> TRUE, silent |-> FALSE]
MenuCheckOpts == [given |-> TRUE, silent |-> FALSE]
StartupCheckOpts == [given |-> TRUE, silent |-> TRUE]
IntervalCheckOpts == [given |-> TRUE, silent |-> TRUE]

CheckHandler == <<"checkForUpdatesHandler">>
AppHandler(channel) == <<"appHandler", channel>>

\* lines 219-242: the handler patchedHandle hands to the real ipcMain.handle
patchedHandle(channel, handler) ==
  IF channel = MessageFromView THEN <<"wrappedHandler">> \o handler
  ELSE handler

\* the real ipcMain.handle throws when the channel already has a handler
originalHandle(registry, channel, handler) ==
  IF registry[channel] # <<>> THEN registry
  ELSE [registry EXCEPT ![channel] = handler]

\* line 223 with the test of the message type negated
IsInstallMessage_Never(message) ==
  message.present /\ message.type # "install-app-update"

\* line 223
IsInstallMessage(message) ==
  message.present /\ message.type = "install-app-update"

Undefined == [defined |-> FALSE, by |-> <<>>, present |-> FALSE, type |-> ""]

\* line 237: what the application's own handler returns for a message
ApplicationResult(handler, message) ==
  [defined |-> TRUE, by |-> handler, present |-> message.present,
   type |-> message.type]

InvokeRecord(channel, message, appCalls, result, dialogs, installerPath) ==
  [kind |-> "invoke", channel |-> channel, message |-> message,
   appCalls |-> appCalls, result |-> result, dialogs |-> dialogs,
   installerPath |-> installerPath,
   installerExists |-> (installerPath \in files), effect |-> InstallEffect]

\* the application registers a handler through the patched ipcMain.handle
AppHandle(channel) ==
  /\ appState \in {"loaded", "ready"}
  /\ handlers[channel] = <<>>
  /\ handlers' = originalHandle(handlers, channel,
                                patchedHandle(channel, AppHandler(channel)))
  /\ done' = [kind |-> "handle", channel |-> channel,
              handler |-> AppHandler(channel)]
  /\ UNCHANGED <<webview, pipelineVars, env, files, appState, currentBuildNumber, updateAvailable,
                 latestRemoteBuild, inflight, everNewer, windows, prompts,
                 children, installLog, relaunches, startupTimer,
                 intervalTimer, relaunchTimers, menu>>

\* line 225 with the test of existsSync left out
InstallerFound_Always(installerPath) == TRUE

\* line 225: fs.existsSync(installerPath)
InstallerFound(installerPath) == installerPath \in files

\* lines 224-233: the install-app-update branch of wrappedHandler
InstallRequestDialogs(installerPath, exists) ==
  IF exists THEN <<>>
  ELSE <<Dialog("error", "Update Failed", <<>>, installerPath)>>

\* lines 222-238
wrappedHandler(handler, message) ==
  IF IsInstallMessage(message)
  THEN LET installerPath == getInstallerPath
           exists == InstallerFound(installerPath)
       IN  /\ IF exists THEN runInstaller(installerPath) ELSE NoInstall
           /\ done' = InvokeRecord(MessageFromView, message, <<>>, Undefined,
                        InstallRequestDialogs(installerPath, exists),
                        installerPath)
  ELSE /\ NoInstall
       /\ done' = InvokeRecord(MessageFromView, message,
                    <<[handler |-> handler, message |-> message]>>,
                    ApplicationResult(handler, message), <<>>, NoPath)

\* a renderer invokes a channel whose handler is not the updater's check
IpcInvoke(channel, message) ==
  /\ appState = "ready"
  /\ \E w \in DOMAIN windows : windows[w] = "live"
  /\ handlers[channel] # <<>>
  /\ handlers[channel] # CheckHandler
  /\ IF Head(handlers[channel]) = "wrappedHandler"
     THEN wrappedHandler(Tail(handlers[channel]), message)
     ELSE /\ NoInstall
          /\ done' = InvokeRecord(channel, message,
                       <<[handler |-> handlers[channel], message |-> message]>>,
                       ApplicationResult(handlers[channel], message), <<>>,
                       NoPath)
  /\ UNCHANGED <<webview, pipelineVars, env, appState, currentBuildNumber, updateAvailable,
                 latestRemoteBuild, inflight, everNewer, windows, prompts,
                 relaunches, startupTimer, intervalTimer, handlers, menu>>

\* lines 206-208: a renderer invokes the updater's check-for-updates handler
IpcCheck ==
  /\ \E w \in DOMAIN windows : windows[w] = "live"
  /\ handlers[CheckForUpdatesChannel] = CheckHandler
  /\ checkForUpdates(IpcCheckOpts, "ipc")
  /\ UNCHANGED <<webview, pipelineVars, env, files, appState, updateAvailable, latestRemoteBuild,
                 everNewer, windows, prompts, children, installLog,
                 relaunches, startupTimer, intervalTimer, relaunchTimers,
                 handlers, menu>>

\* ------------------------------------------------------------------------
\* Menu (lines 248-272)
\* ------------------------------------------------------------------------

\* A label is a sequence of text fragments; toLowerCase works per fragment.
toLowerCase(fragment) ==
  CASE fragment = "Check For Update" -> "check for update"
    [] fragment = "CHECK FOR UPDATE" -> "check for update"
    [] fragment = "Codex" -> "codex"
    [] fragment = "Quit" -> "quit"
    [] fragment = "Help" -> "help"
    [] fragment = "More" -> "more"
    [] OTHER -> fragment

\* lines 259-262
LabelMatches(label) ==
  label # <<>> /\ \E i \in 1 .. Len(label) : toLowerCase(label[i]) = "check for update"

Item(label, enabled, submenu) ==
  [label |-> label, enabled |-> enabled, click |-> "app", submenu |-> submenu]

\* menus the application builds: null, or a menu bar whose first submenu
\* holds the disabled "Check For Updates..." item
NullMenu == [isNull |-> TRUE, items |-> <<>>]
MenuBar ==
  [isNull |-> FALSE,
   items |-> << Item(<<"Codex">>, TRUE,
                  << Item(<<"Check For Update", "s...">>, FALSE, <<>>),
                     Item(<<>>, TRUE, <<>>),
                     Item(<<"Quit">>, TRUE, <<>>) >>),
                Item(<<"CHECK FOR UPDATE">>, FALSE, <<>>) >>]
\* a menu bar whose matching items sit two submenus deep, one of them
\* below an item that matches itself
DeepMenu ==
  [isNull |-> FALSE,
   items |-> << Item(<<"Help">>, TRUE,
                  << Item(<<"More">>, FALSE,
                       << Item(<<"check for update">>, FALSE, <<>>),
                          Item(<<"Quit">>, FALSE, <<>>) >>),
                     Item(<<"Check For Update">>, FALSE,
                       << Item(<<"x", "CHECK FOR UPDATE">>, FALSE, <<>>) >>) >>) >>]
AppMenus == {NullMenu, MenuBar, DeepMenu}

\* patchMenuItems without lines 268-270: submenus are not visited
patchMenuItems_TopLevelOnly(items) ==
  [i \in 1 .. Len(items) |->
     IF LabelMatches(items[i].label)
     THEN [items[i] EXCEPT !.enabled = TRUE, !.click = "updater"]
     ELSE items[i]]

RECURSIVE patchMenuItems(_)
patchMenuItems(items) ==
  [i \in 1 .. Len(items) |->
     LET item == items[i]
         own  == IF LabelMatches(item.label)
                 THEN [item EXCEPT !.enabled = TRUE, !.click = "updater"]
                 ELSE item
     IN  [own EXCEPT !.submenu = patchMenuItems(item.submenu)]]

RECURSIVE AllItems(_)
AllItems(items) ==
  IF items = <<>> THEN {}
  ELSE {items[i] : i \in 1 .. Len(items)}
         \cup UNION {AllItems(items[i].submenu) : i \in 1 .. Len(items)}

\* lines 249-254: the menu patchedSetApplicationMenu hands to Electron
PatchedMenu(m) ==
  [set |-> TRUE, isNull |-> m.isNull,
   items |-> IF m.isNull THEN m.items ELSE patchMenuItems(m.items)]

SetApplicationMenu(m) ==
  /\ appState \in {"loaded", "ready"}
  /\ menu' = PatchedMenu(m)
  /\ menu' # menu
  /\ done' = [kind |-> "menu", given |-> m]
  /\ UNCHANGED <<webview, pipelineVars, env, files, appState, currentBuildNumber, updateAvailable,
                 latestRemoteBuild, inflight, everNewer, windows, prompts,
                 children, installLog, relaunches, startupTimer,
                 intervalTimer, relaunchTimers, handlers>>

\* the application sets one of its menus
AppSetsMenu == \E m \in AppMenus : SetApplicationMenu(m)

\* lines 264-266: the user clicks a patched item
MenuClick ==
  /\ \E item \in AllItems(menu.items) : item.enabled /\ item.click = "updater"
  /\ checkForUpdates(MenuCheckOpts, "menu")
  /\ UNCHANGED <<webview, pipelineVars, env, files, appState, updateAvailable, latestRemoteBuild,
                 everNewer, windows, prompts, children, installLog,
                 relaunches, startupTimer, intervalTimer, relaunchTimers,
                 handlers, menu>>

\* ------------------------------------------------------------------------
\* Startup and background checks (lines 204-212 and 278-287)
\* ------------------------------------------------------------------------

\* both app.whenReady() callbacks, which run back to back
WhenReady ==
  /\ appState = "loaded"
  /\ appState' = "ready"
  /\ handlers' = originalHandle(handlers, CheckForUpdatesChannel,
                   patchedHandle(CheckForUpdatesChannel, CheckHandler))
  /\ startupTimer' = <<StartupDelayMs>>
  /\ intervalTimer' = <<CHECK_INTERVAL_MS>>
  /\ done' = Nothing
  /\ UNCHANGED <<webview, pipelineVars, env, files, currentBuildNumber, updateAvailable,
                 latestRemoteBuild, inflight, everNewer, windows, prompts,
                 children, installLog, relaunches, relaunchTimers, menu>>

\* lines 280-282: setTimeout fires once
StartupFire ==
  /\ startupTimer = <<0>>
  /\ startupTimer' = <<>>
  /\ checkForUpdates(StartupCheckOpts, "startup")
  /\ UNCHANGED <<webview, pipelineVars, env, files, appState, updateAvailable, latestRemoteBuild,
                 everNewer, windows, prompts, children, installLog,
                 relaunches, intervalTimer, relaunchTimers, handlers, menu>>

\* a timer that fires once, as setTimeout would
IntervalRearm_Once == <<>>

\* after the callback of setInterval has run the timer is armed again
IntervalRearm == <<CHECK_INTERVAL_MS>>

\* lines 284-286
IntervalFire ==
  /\ intervalTimer = <<0>>
  /\ intervalTimer' = IntervalRearm
  /\ checkForUpdates(IntervalCheckOpts, "interval")
  /\ UNCHANGED <<webview, pipelineVars, env, files, appState, updateAvailable, latestRemoteBuild,
                 everNewer, windows, prompts, children, installLog,
                 relaunches, startupTimer, relaunchTimers, handlers, menu>>

\* time left of every armed timer
ArmedTimes ==
  {startupTimer[i] : i \in 1 .. Len(startupTimer)}
    \cup {intervalTimer[i] : i \in 1 .. Len(intervalTimer)}
    \cup {relaunchTimers[i] : i \in 1 .. Len(relaunchTimers)}

Elapse(timer, d) == [i \in 1 .. Len(timer) |-> timer[i] - d]

\* time passes until the next timer is due; no timer is overdue
Advance ==
  /\ appState = "ready"
  /\ ArmedTimes # {}
  /\ \A t \in ArmedTimes : t > 0
  /\ LET d == CHOOSE t \in ArmedTimes : \A u \in ArmedTimes : t <= u
     IN  /\ startupTimer' = Elapse(startupTimer, d)
         /\ intervalTimer' = Elapse(intervalTimer, d)
         /\ relaunchTimers' = Elapse(relaunchTimers, d)
  /\ done' = Nothing
  /\ UNCHANGED <<webview, pipelineVars, env, files, appState, currentBuildNumber, updateAvailable,
                 latestRemoteBuild, inflight, everNewer, windows, prompts,
                 children, installLog, relaunches, handlers, menu>>

\* ------------------------------------------------------------------------
\* Windows and files
\* ------------------------------------------------------------------------

WindowOpen(w) ==
  /\ appState = "ready"
  /\ windows[w] = "closed"
  /\ windows' = [windows EXCEPT ![w] = "live"]
  /\ done' = Nothing
  /\ UNCHANGED <<webview, pipelineVars, env, files, appState, currentBuildNumber, updateAvailable,
                 latestRemoteBuild, inflight, everNewer, prompts, children,
                 installLog, relaunches, startupTimer, intervalTimer,
                 relaunchTimers, handlers, menu>>

\* a window is destroyed, and later leaves BrowserWindow.getAllWindows()
WindowClose(w) ==
  /\ appState = "ready"
  /\ windows[w] \in {"live", "destroyed"}
  /\ windows' = [windows EXCEPT ![w] =
                   IF windows[w] = "live" THEN "destroyed" ELSE "closed"]
  /\ done' = Nothing
  /\ UNCHANGED <<webview, pipelineVars, env, files, appState, currentBuildNumber, updateAvailable,
                 latestRemoteBuild, inflight, everNewer, prompts, children,
                 installLog, relaunches, startupTimer, intervalTimer,
                 relaunchTimers, handlers, menu>>

\* the bundle on disk is replaced while the application runs, as a run of
\* the installer does
BundleReplaced ==
  /\ appState = "ready"
  /\ \E pkg \in Packages \ {env.pkg} : env' = [env EXCEPT !.pkg = pkg]
  /\ done' = Nothing
  /\ UNCHANGED <<webview, pipelineVars, files, appState, currentBuildNumber,
                 updateAvailable, latestRemoteBuild, inflight, everNewer,
                 windows, prompts, children, installLog, relaunches,
                 startupTimer, intervalTimer, relaunchTimers, handlers, menu>>

\* somebody removes install.sh while the application runs
InstallerRemoved ==
  /\ appState = "ready"
  /\ getInstallerPath \in files
  /\ files' = files \ {getInstallerPath}
  /\ done' = Nothing
  /\ UNCHANGED <<webview, pipelineVars, env, appState, currentBuildNumber, updateAvailable,
                 latestRemoteBuild, inflight, everNewer, windows, prompts,
                 children, installLog, relaunches, startupTimer,
                 intervalTimer, relaunchTimers, handlers, menu>>

\* ------------------------------------------------------------------------
\* install.sh: the installer pipeline.  Every stage of main is one step; a
\* stage that writes a file step by step can be left half way by a failure
\* or by the death of the process.
\* ------------------------------------------------------------------------

ELECTRON_VERSION_DEFAULT == <<"4", "0", ".", "0", ".", "0">>

\* tokens of a line of main.js
UseStrict == "'use strict';"
LoadDirective == "require('./linux-updater.js');"
Code == "code"

\* The source bundles a run can be given.  versionFile is the version file
\* of the Electron framework inside the bundle (none when absent), entry is
\* .vite/build/main.js as a sequence of lines.
Bundles ==
  { [hash |-> "dmg1",
     versionFile |-> <<<<"9", ".", "1", ".", "0", "\n">>>>,
     entry |-> <<<<UseStrict, Code>>>>],
    [hash |-> "dmg2",
     versionFile |-> <<>>,
     entry |-> <<<<Code>>, <<UseStrict, Code>>>>] }

\* what uname -m can answer; the last one has no Electron build
Archs == {"x86_64", "aarch64", "riscv64"}
ElectronArchs == {"x86_64", "aarch64", "armv7l"}

Whitespace == {" ", "\n", "\t"}

\* tr -d '[:space:]'
RECURSIVE StripSpace(_)
StripSpace(s) ==
  IF s = <<>> THEN <<>>
  ELSE IF Head(s) \in Whitespace THEN StripSpace(Tail(s))
  ELSE <<Head(s)>> \o StripSpace(Tail(s))

\* [[ s =~ ^[0-9]+\.[0-9]+\.[0-9]+ ]]
LooksLikeVersion(s) ==
  LET a == DigitRun(s, 1)
      b == DigitRun(s, a + 2)
      c == DigitRun(s, a + b + 3)
  IN  /\ a > 0
      /\ a + 1 <= Len(s) /\ s[a + 1] = "."
      /\ b > 0
      /\ a + b + 2 <= Len(s) /\ s[a + b + 2] = "."
      /\ c > 0

detect_electron_version(bundle) ==
  IF /\ bundle.versionFile # <<>>
     /\ LooksLikeVersion(StripSpace(bundle.versionFile[1]))
  THEN StripSpace(bundle.versionFile[1])
  ELSE ELECTRON_VERSION_DEFAULT

\* echo "${dmg_hash}:${ELECTRON_VERSION}:${ARCH}"
compute_stamp(bundle, version, arch) ==
  <<bundle.hash, ":">> \o version \o <<":", arch>>

\* the stamp file: absent, or present with a text
NoStamp == [present |-> FALSE, text |-> <<>>]
TruncatedStamp == [present |-> TRUE, text |-> <<>>]
StampOf(text) == [present |-> TRUE, text |-> text]

check_stamp(stamp, bundle, version, arch) ==
  /\ stamp.present
  /\ compute_stamp(bundle, version, arch) = stamp.text

\* the stamp test without the test of --force
ShortCircuits_IgnoresForce(force, stamp, bundle, version, arch) ==
  check_stamp(stamp, bundle, version, arch)

\* if [ "$force" = false ] && check_stamp "$dmg_path"
ShortCircuits(force, stamp, bundle, version, arch) ==
  /\ force = FALSE
  /\ check_stamp(stamp, bundle, version, arch)

\* ---- the work tree $WORK_DIR/app-extracted ----

\* npx @electron/asar extract
asar_extract(bundle) ==
  [from |-> bundle.hash, entry |-> bundle.entry, sparkle |-> TRUE,
   native |-> <<"darwin">>, updater |-> <<>>]

\* rm -rf .../sparkle-darwin; find ... -name sparkle.node -delete
strip_sparkle(tree) == [tree EXCEPT !.sparkle = FALSE]

\* the native modules are compiled for the Electron version on this machine
build_native_modules(tree, version, arch) ==
  [tree EXCEPT !.native = <<version, arch>>]

\* index of the first occurrence of token in line, 0 when there is none
RECURSIVE FirstIndex(_, _, _)
FirstIndex(line, token, from) ==
  IF from > Len(line) THEN 0
  ELSE IF line[from] = token THEN from
  ELSE FirstIndex(line, token, from + 1)

\* sed -i '1s|"use strict";|"use strict";require("./linux-updater.js");|'
sed_inject(lines) ==
  IF lines = <<>> THEN lines
  ELSE LET i == FirstIndex(lines[1], UseStrict, 1)
       IN  IF i = 0 THEN lines
           ELSE [lines EXCEPT ![1] =
                   SubSeq(@, 1, i) \o <<LoadDirective>>
                     \o SubSeq(@, i + 1, Len(@))]

\* the linux-updater.js files that can lie next to install.sh
UpdaterModules == {"updater-1", "updater-2"}

\* cp linux-updater.js next to main.js, then the sed above
inject_updater(tree, module) ==
  [tree EXCEPT !.updater = <<module>>, !.entry = sed_inject(@)]

\* npx @electron/asar pack: the archive holds the tree
asar_pack(tree) == tree

patch_asar(bundle, version, arch, module) ==
  asar_pack(inject_updater(
    build_native_modules(strip_sparkle(asar_extract(bundle)), version, arch),
    module))

\* number of load directives in main.js
RECURSIVE CountIn(_, _)
CountIn(line, token) ==
  IF line = <<>> THEN 0
  ELSE (IF Head(line) = token THEN 1 ELSE 0) + CountIn(Tail(line), token)

RECURSIVE DirectiveCount(_)
DirectiveCount(lines) ==
  IF lines = <<>> THEN 0
  ELSE CountIn(Head(lines), LoadDirective) + DirectiveCount(Tail(lines))

\* ---- $INSTALL_DIR ----

Absent == [kind |-> "absent"]
Partial == [kind |-> "partial"]

\* icon and loose are codex-desktop.png and the other files at the top of
\* $INSTALL_DIR
EmptyInstallDir ==
  [runtime |-> Absent, webview |-> Absent, app |-> Absent, start |-> Absent,
   icon |-> Absent, loose |-> {}]

\* unzip -qo electron.zip
download_electron(dir, version, arch) ==
  [dir EXCEPT !.runtime = [kind |-> "electron", version |-> version,
                           arch |-> arch]]

\* cp -r app-extracted/webview/* content/webview/
extract_webview(dir, tree) ==
  [dir EXCEPT !.webview = [kind |-> "webview", from |-> tree.from]]

\* cp app.asar resources/
install_app(dir, asar) ==
  [dir EXCEPT !.app = [kind |-> "asar", asar |-> asar]]

\* cat > start.sh; chmod +x
create_start_script(dir) == [dir EXCEPT !.start = [kind |-> "script"]]

\* files somebody keeps in $INSTALL_DIR, and the file icns2png -x -s 256
\* writes there
UserFiles == {"notes.txt", "shot_256x256.png"}
Icns2pngOutput == "icon_256x256x32.png"

\* find -maxdepth 1 -name "*_256x256*" -o -name "*_128x128*"
MatchesIconGlob(name) == name \in {"shot_256x256.png", Icns2pngOutput}

\* the icon tools a host can have, and which file find lists first
IconTools == {"convert", "icns2png", "none"}
Listings == {"extracted-first", "other-first"}

\* install_desktop_entry, lines 377-424, as far as it touches $INSTALL_DIR:
\* convert writes codex-desktop.png; icns2png writes its output into
\* $INSTALL_DIR and the first file find lists under the two patterns is
\* moved to codex-desktop.png; without a tool no icon is written
install_desktop_entry(dir, tools, listing) ==
  CASE tools = "convert" ->
         [dir EXCEPT !.icon = [kind |-> "png", from |-> "convert"]]
    [] tools = "icns2png" ->
         LET present == dir.loose \cup {Icns2pngOutput}
             found == {f \in present : MatchesIconGlob(f)}
             extracted ==
               IF listing = "other-first" /\ found # {Icns2pngOutput}
               THEN CHOOSE f \in found : f # Icns2pngOutput
               ELSE Icns2pngOutput
         IN  [dir EXCEPT !.icon = [kind |-> "png", from |-> extracted],
                         !.loose = present \ {extracted}]
    [] OTHER -> dir

\* ---- main ----

\* main with the runtime fetched before the stamp test
Stages_RuntimeFirst ==
  << "check_deps", "get_dmg", "extract_dmg", "detect_electron_version",
     "download_electron", "check_stamp", "asar_extract", "strip_sparkle",
     "build_native_modules", "inject_updater", "asar_pack",
     "extract_webview", "install_app", "create_start_script",
     "install_desktop_entry", "write_stamp" >>

Stages ==
  << "check_deps", "get_dmg", "extract_dmg", "detect_electron_version",
     "check_stamp", "asar_extract", "strip_sparkle", "build_native_modules",
     "inject_updater", "asar_pack", "download_electron", "extract_webview",
     "install_app", "create_start_script", "install_desktop_entry",
     "write_stamp" >>

StageIndex(name) == CHOOSE i \in 1..Len(Stages) : Stages[i] = name

\* stages whose commands are all guarded by "|| true" or end in a fallback
NeverFailing == {"detect_electron_version", "check_stamp", "strip_sparkle"}

\* a shell without set -e and without the ERR trap: the run goes on with
\* the next stage
ErrTrap_Continue(pc) == [state |-> "running", pc |-> pc + 1, exit |-> <<>>]

\* where a failing command sends the run: the ERR trap calls error, which
\* exits with status 1
ErrTrap(pc) == [state |-> "failed", pc |-> pc, exit |-> <<1>>]

NoWork == [tree |-> <<>>, asar |-> <<>>]

\* ---- what a run is given ----

\* a file that is not a disk image: the body of an HTTP error answer
ErrorPage == [hash |-> "page", versionFile |-> <<>>, entry |-> <<>>]
\* a file of length 0
EmptyFile == [hash |-> "empty", versionFile |-> <<>>, entry |-> <<>>]

\* 7z finds a *.app directory in the file
IsDmg(file) == file \in Bundles

\* the disk images the user keeps, each named after the bundle it holds
DmgFiles == {b.hash : b \in Bundles}
FileBundle(name) == CHOOSE b \in Bundles : b.hash = name

\* the install.sh scripts there are: the one start.sh exports and the one
\* next to the default install directory
ScriptPaths == {<<"home", "src", "install.sh">>, <<"repo", "install.sh">>}

\* SCRIPT_DIR="$(cd "$(dirname "$0")" && pwd)"
SCRIPT_DIR(script) == SubSeq(script, 1, Len(script) - 1)

\* dmg_dest="$SCRIPT_DIR/Codex.dmg"
dmg_dest(script) == Append(SCRIPT_DIR(script), "Codex.dmg")

CachePaths == {dmg_dest(script) : script \in ScriptPaths}

\* what the download URL can answer: a disk image, a connection that
\* fails, a body of length 0, an HTTP error with a body
NetAnswers ==
  {[kind |-> "dmg", file |-> b] : b \in Bundles}
    \cup {[kind |-> "down", file |-> EmptyFile],
          [kind |-> "empty", file |-> EmptyFile],
          [kind |-> "httperror", file |-> ErrorPage]}

\* what SHASUMS256.txt can say about the downloaded archive
Shasums == {"match", "mismatch", "noentry", "unreachable"}

\* lines 231-248: curl -f fails on an unreachable list and the else branch
\* warns; with the list fetched, expected=$(grep "$zip_name" ... | grep -v
\* ... | head -1 | awk ...) is a plain assignment under set -e and pipefail,
\* so a list without the archive's name makes grep, the pipeline and the
\* assignment fail and the ERR trap ends the run before the -z test; a
\* different checksum calls error
verify_checksum(shasums) ==
  CASE shasums = "unreachable" -> "warn"
    [] shasums = "noentry" -> "errtrap"
    [] shasums = "mismatch" -> "error"
    [] OTHER -> "verified"

\* the host and the network a run meets: the tool that can read the icon,
\* what SHASUMS256.txt says about the runtime archive, the linux-updater.js
\* next to the script, the answer of the download URL
DefaultWorld ==
  [tools |-> "convert", listing |-> "extracted-first", shasums |-> "match",
   module |-> "updater-1",
   net |-> [kind |-> "down", file |-> EmptyFile]]

\* main, lines 495-502: --force sets force, every other word is positional
ParsedForce(args) == \E i \in DOMAIN args : args[i] = "--force"
IsPositional(arg) == arg # "--force"
Positional(args) == SelectSeq(args, IsPositional)

\* [ "${#positional[@]}" -ge 1 ] && [ -f "${positional[0]}" ]
NamesDmg(args) ==
  /\ Positional(args) # <<>>
  /\ Positional(args)[1] \in DmgFiles

IdleRun ==
  [state |-> "idle", pc |-> 0, args |-> <<>>, force |-> FALSE,
   arch |-> "x86_64", world |-> DefaultWorld,
   script |-> <<"home", "src", "install.sh">>, fetched |-> FALSE,
   warned |-> {}, source |-> <<>>, version |-> <<>>, log |-> <<>>,
   exit |-> <<>>, stampBefore |-> NoStamp, stampOpen |-> FALSE]

Running == run.state = "running"
Stage == Stages[run.pc]
Logged(ok) == Append(run.log, [stage |-> Stage, ok |-> ok])

\* install.sh [--force] [dmg]: the script starts with a fresh $WORK_DIR
main(script, args, arch, world) ==
  /\ run.state # "running"
  /\ run' = [state |-> "running", pc |-> 1, args |-> args,
             force |-> ParsedForce(args), arch |-> arch, world |-> world,
             script |-> script, fetched |-> FALSE, warned |-> {},
             source |-> <<>>, version |-> <<>>, log |-> <<>>,
             exit |-> <<>>, stampBefore |-> stampFile, stampOpen |-> FALSE]
  /\ workDir' = NoWork
  /\ UNCHANGED <<stampFile, installDir, dmgCache, updaterVars, webview>>

\* install.sh [--force] file: the user names a disk image
RunStarts ==
  \E force \in BOOLEAN, arch \in Archs, file \in DmgFiles :
    main(<<"home", "src", "install.sh">>,
         (IF force THEN <<"--force">> ELSE <<>>) \o <<file>>,
         arch, DefaultWorld)

\* the words a user may put on the command line
CliArgs ==
  {<<>>, <<"--force">>, <<"--help">>, <<"--uninstall">>,
   <<"--repair-desktop">>, <<"--help", "dmg1">>}

\* install.sh with any of these words, on a network that serves a disk
\* image or is down
CliRunStarts ==
  \E args \in CliArgs, net \in {n \in NetAnswers : n.kind # "httperror"} :
    main(<<"home", "src", "install.sh">>, args, "x86_64",
         [DefaultWorld EXCEPT !.net = net])

\* install.sh [--force] dmg1 on any architecture, with any answer about
\* the checksum of the runtime archive
RuntimeRunStarts ==
  \E force \in BOOLEAN, arch \in Archs, shasums \in Shasums :
    main(<<"home", "src", "install.sh">>,
         (IF force THEN <<"--force">> ELSE <<>>) \o <<"dmg1">>,
         arch, [DefaultWorld EXCEPT !.shasums = shasums])

\* install.sh [--force] [dmg1], with any answer of the download URL
SourceRunStarts ==
  \E args \in {<<>>, <<"--force">>, <<"dmg1">>}, net \in NetAnswers :
    main(<<"home", "src", "install.sh">>, args, "x86_64",
         [DefaultWorld EXCEPT !.net = net])

\* install.sh [--force] dmg1 on a host with any of the icon tools
AssembleRunStarts ==
  \E force \in BOOLEAN, tools \in IconTools, listing \in Listings :
    main(<<"home", "src", "install.sh">>,
         (IF force THEN <<"--force">> ELSE <<>>) \o <<"dmg1">>,
         "x86_64",
         [DefaultWorld EXCEPT !.tools = tools, !.listing = listing])

\* somebody puts a file of their own into $INSTALL_DIR between two runs
FilePlaced ==
  /\ ~Running
  /\ \E f \in UserFiles \ installDir.loose :
       installDir' = [installDir EXCEPT !.loose = @ \cup {f}]
  /\ UNCHANGED <<stampFile, workDir, run, dmgCache, updaterVars, webview>>

\* line 10: ${CODEX_INSTALL_DIR:-$SCRIPT_DIR/codex-app}; the default also
\* stands in for a variable that is set to the empty string
INSTALL_DIR(script, var) ==
  IF var.set /\ var.value # <<>> THEN var.value
  ELSE Append(dirname(script), "codex-app")

\* lines 185-188: execFile is given no env option, so the subprocess
\* inherits process.env of the application, CODEX_INSTALL_DIR included
\* when the installation records what the application was started with
ChildWorld(net) ==
  LET world == [DefaultWorld EXCEPT !.net = net]
  IN  IF "CODEX_INSTALL_DIR" \in DOMAIN env
      THEN world @@ [CODEX_INSTALL_DIR |-> env.CODEX_INSTALL_DIR]
      ELSE world

\* line 185: bash runs the script the updater spawned, with the words the
\* updater gave it, while the download URL serves a newer disk image or is
\* down
ChildRuns ==
  /\ run.state = "idle"
  /\ \E i \in 1 .. Len(children), net \in NetAnswers :
       /\ net.file \in {FileBundle("dmg2"), EmptyFile}
       /\ children[i].cmd = "bash"
       /\ main(Head(children[i].args), Tail(children[i].args), "x86_64",
               ChildWorld(net))

\* install.sh [--force] dmg1, with either linux-updater.js next to it
ArtifactRunStarts ==
  \E force \in BOOLEAN, module \in UpdaterModules :
    main(<<"home", "src", "install.sh">>,
         (IF force THEN <<"--force">> ELSE <<>>) \o <<"dmg1">>,
         "x86_64", [DefaultWorld EXCEPT !.module = module])

\* main, lines 506-512: the file named on the command line, or get_dmg:
\* the cached Codex.dmg when it is not empty, or a download to that path,
\* removed again when curl fails or leaves an empty file
ResolveDmg ==
  /\ Running
  /\ Stage = "get_dmg"
  /\ LET dest == dmg_dest(run.script)
         net == run.world.net
     IN  IF NamesDmg(run.args)
         THEN /\ run' = [run EXCEPT
                     !.pc = @ + 1, !.log = Logged(TRUE),
                     !.source = <<FileBundle(Positional(run.args)[1])>>]
              /\ UNCHANGED <<files, dmgCache>>
         ELSE IF dest \in files /\ dmgCache[dest] # EmptyFile
         THEN /\ run' = [run EXCEPT
                     !.pc = @ + 1, !.log = Logged(TRUE),
                     !.source = <<dmgCache[dest]>>]
              /\ UNCHANGED <<files, dmgCache>>
         ELSE IF net.kind \in {"down", "empty"}
         THEN /\ run' = [run EXCEPT !.state = ErrTrap(run.pc).state,
                                    !.pc = ErrTrap(run.pc).pc,
                                    !.exit = ErrTrap(run.pc).exit,
                                    !.log = Logged(FALSE)]
              /\ files' = files \ {dest}
              /\ dmgCache' = dmgCache
         ELSE /\ run' = [run EXCEPT
                     !.pc = @ + 1, !.log = Logged(TRUE),
                     !.fetched = TRUE, !.source = <<net.file>>]
              /\ files' = files \cup {dest}
              /\ dmgCache' = [dmgCache EXCEPT ![dest] = net.file]
  /\ workDir' = IF run'.state = "failed" THEN NoWork ELSE workDir
  /\ UNCHANGED <<stampFile, installDir, updaterVarsButFiles, webview>>

\* what the stage that is running needs to succeed
StageCanSucceed ==
  CASE Stage = "download_electron" ->
         /\ run.arch \in ElectronArchs
         /\ verify_checksum(run.world.shasums) \in {"verified", "warn"}
    [] Stage = "extract_dmg" -> IsDmg(run.source[1])
    [] OTHER -> TRUE

\* patch_asar copying the webview into $INSTALL_DIR as soon as the archive
\* is unpacked, instead of extract_webview doing it after the runtime
InstallDirAfter_WebviewAtUnpack ==
  CASE Stage = "asar_extract" ->
         extract_webview(installDir, asar_extract(run.source[1]))
    [] Stage = "download_electron" ->
         download_electron(installDir, run.version[1], run.arch)
    [] Stage = "install_app" -> install_app(installDir, workDir.asar[1])
    [] Stage = "create_start_script" -> create_start_script(installDir)
    [] Stage = "install_desktop_entry" ->
         install_desktop_entry(installDir, run.world.tools,
                               run.world.listing)
    [] OTHER -> installDir

\* $INSTALL_DIR after the running stage has succeeded
InstallDirAfter ==
  CASE Stage = "download_electron" ->
         download_electron(installDir, run.version[1], run.arch)
    [] Stage = "extract_webview" ->
         extract_webview(installDir, workDir.tree[1])
    [] Stage = "install_app" -> install_app(installDir, workDir.asar[1])
    [] Stage = "create_start_script" -> create_start_script(installDir)
    [] Stage = "install_desktop_entry" ->
         install_desktop_entry(installDir, run.world.tools,
                               run.world.listing)
    [] OTHER -> installDir

\* $WORK_DIR after the running stage has succeeded
WorkDirAfter ==
  CASE Stage = "asar_extract" ->
         [workDir EXCEPT !.tree = <<asar_extract(run.source[1])>>]
    [] Stage = "strip_sparkle" ->
         [workDir EXCEPT !.tree = <<strip_sparkle(@[1])>>]
    [] Stage = "build_native_modules" ->
         [workDir EXCEPT !.tree =
            <<build_native_modules(@[1], run.version[1], run.arch)>>]
    [] Stage = "inject_updater" ->
         [workDir EXCEPT !.tree =
            <<inject_updater(@[1], run.world.module)>>]
    [] Stage = "asar_pack" ->
         [workDir EXCEPT !.asar = <<asar_pack(workDir.tree[1])>>]
    [] OTHER -> workDir

\* what a stage other than the stamp test and the stamp write does to the
\* run, to $WORK_DIR and to $INSTALL_DIR when it runs to its end
StageRuns ==
  /\ Running
  /\ Stage \notin {"get_dmg", "check_stamp", "write_stamp"}
  /\ StageCanSucceed
  /\ installDir' = InstallDirAfter
  /\ workDir' = WorkDirAfter
  /\ run' = [run EXCEPT
       !.pc = @ + 1,
       !.log = Logged(TRUE),
       !.warned = IF Stage = "download_electron"
                     /\ verify_checksum(run.world.shasums) = "warn"
                  THEN @ \cup {"checksum"} ELSE @,
       !.version = IF Stage = "detect_electron_version"
                   THEN <<detect_electron_version(run.source[1])>> ELSE @]
  /\ UNCHANGED <<stampFile, dmgCache>>

\* a stage other than the stamp test and the stamp write runs to its end
StageSucceeds == StageRuns /\ UNCHANGED <<updaterVars, webview>>

\* the stamp test of main: return 0 when the run short-circuits; the EXIT
\* trap removes $WORK_DIR
CheckStamp ==
  /\ Running
  /\ Stage = "check_stamp"
  /\ IF ShortCircuits(run.force, stampFile, run.source[1], run.version[1],
                      run.arch)
     THEN /\ run' = [run EXCEPT !.state = "uptodate", !.exit = <<0>>,
                                !.log = Logged(TRUE)]
          /\ workDir' = NoWork
     ELSE /\ run' = [run EXCEPT !.pc = @ + 1, !.log = Logged(TRUE)]
          /\ workDir' = workDir
  /\ UNCHANGED <<stampFile, installDir, dmgCache, updaterVars, webview>>

\* write_stamp, first half: the redirection "> $STAMP_FILE" opens the file
\* and cuts it to nothing before compute_stamp runs
StampOpens ==
  /\ Running
  /\ Stage = "write_stamp"
  /\ ~run.stampOpen
  /\ stampFile' = TruncatedStamp
  /\ run' = [run EXCEPT !.stampOpen = TRUE]
  /\ UNCHANGED <<installDir, workDir, dmgCache, updaterVars, webview>>

\* write_stamp, second half: compute_stamp hashes the bundle and echoes the
\* fingerprint into the open file; main returns 0
StampWritten ==
  /\ Running
  /\ Stage = "write_stamp"
  /\ run.stampOpen
  /\ stampFile' = StampOf(compute_stamp(run.source[1], run.version[1],
                                        run.arch))
  /\ run' = [run EXCEPT !.state = "done", !.exit = <<0>>,
                        !.log = Logged(TRUE)]
  /\ workDir' = NoWork
  /\ UNCHANGED <<installDir, dmgCache, updaterVars, webview>>

\* what the running stage can leave in $INSTALL_DIR when it does not run to
\* its end: nothing of its own yet, or a part of what it writes
LeftBehind ==
  CASE Stage = "download_electron" /\ StageCanSucceed ->
         {installDir, [installDir EXCEPT !.runtime = Partial]}
    [] Stage = "extract_webview" ->
         {installDir, [installDir EXCEPT !.webview = Partial]}
    [] Stage = "install_app" ->
         {installDir, [installDir EXCEPT !.app = Partial]}
    [] Stage = "create_start_script" ->
         {installDir, [installDir EXCEPT !.start = Partial]}
    [] OTHER -> {installDir}

\* a command of the running stage fails: set -e and the ERR trap end the
\* run, the EXIT trap removes $WORK_DIR
StageFails ==
  /\ Running
  /\ Stage \notin NeverFailing \cup {"get_dmg"}
  /\ installDir' \in LeftBehind
  /\ run' = [run EXCEPT !.state = ErrTrap(run.pc).state,
                        !.pc = ErrTrap(run.pc).pc,
                        !.exit = ErrTrap(run.pc).exit,
                        !.log = Logged(FALSE)]
  /\ workDir' = NoWork
  /\ UNCHANGED <<stampFile, dmgCache, updaterVars, webview>>

\* the running stage meets a condition under which the script ends the run
StageRefuses == Running /\ ~StageCanSucceed /\ StageFails

\* the first part of a disk image: a file that is not empty and holds no
\* complete bundle
TruncatedFile == [hash |-> "cut", versionFile |-> <<>>, entry |-> <<>>]

\* get_dmg, lines 90-91: curl -o writes the body to $dmg_dest as it
\* arrives.  What the cache path holds when the process dies in get_dmg:
\* without a download under way what it held, else that or the part of
\* the image received so far
DownloadLeftBehind ==
  LET dest == dmg_dest(run.script)
      asIs == [files |-> files, cache |-> dmgCache]
  IN  IF /\ Stage = "get_dmg"
         /\ ~NamesDmg(run.args)
         /\ ~(dest \in files /\ dmgCache[dest] # EmptyFile)
         /\ run.world.net.kind = "dmg"
      THEN {asIs, [files |-> files \cup {dest},
                   cache |-> [dmgCache EXCEPT ![dest] = TruncatedFile]]}
      ELSE {asIs}

\* the process is killed (or the machine goes down) while a stage runs: no
\* trap runs
Killed ==
  /\ Running
  /\ installDir' \in LeftBehind
  /\ run' = [run EXCEPT !.state = "killed", !.exit = <<137>>]
  /\ \E left \in DownloadLeftBehind :
       files' = left.files /\ dmgCache' = left.cache
  /\ UNCHANGED <<stampFile, workDir, updaterVarsButFiles, webview>>

\* ------------------------------------------------------------------------
\* start.sh with a pid file and a lock directory (src/unnamed/part_000,
\* lines 256-312).  Every launch is a process of its own; each test and
\* each command of start_webview_server_if_needed is one step.
\* ------------------------------------------------------------------------

MaxLaunches == 3
Launches == 1 .. MaxLaunches

\* the pid file a server of an earlier session left behind
StalePidFile == <<0>>

\* no launch yet: pc is the position of each launch, child its $!, servers
\* the python3 -m http.server processes started so far, indexed by pid
NoLaunches ==
  [pc |-> [l \in Launches |-> "idle"],
   child |-> [l \in Launches |-> <<>>],
   pidFile |-> <<>>, lockDir |-> FALSE, servers |-> <<>>]

\* lines 267-274, with kill -0: /proc/$pid/cmdline exists and is the
\* command line of the server
is_webview_server_pid_valid(pid) ==
  /\ pid \in DOMAIN webview.servers
  /\ webview.servers[pid] # "dead"

LaunchFrame == UNCHANGED <<updaterVars, pipelineVars>>

\* somebody runs start.sh; the webview directory is there and not empty
LaunchStarts ==
  /\ \E l \in Launches :
       /\ webview.pc[l] = "idle"
       /\ webview' = [webview EXCEPT !.pc[l] = "test"]
  /\ LaunchFrame

\* lines 281-287: return when the pid file names a live server
PidFileTested ==
  /\ \E l \in Launches :
       /\ webview.pc[l] = "test"
       /\ webview' = [webview EXCEPT !.pc[l] =
            IF /\ webview.pidFile # <<>>
               /\ is_webview_server_pid_valid(webview.pidFile[1])
            THEN "done" ELSE "mkdir"]
  /\ LaunchFrame

\* line 289: mkdir "$SERVER_LOCK_DIR" succeeds for one process at a time;
\* a launch for which it fails starts no server and goes on
LockTried ==
  /\ \E l \in Launches :
       /\ webview.pc[l] = "mkdir"
       /\ webview' = IF webview.lockDir
                      THEN [webview EXCEPT !.pc[l] = "done"]
                      ELSE [webview EXCEPT !.pc[l] = "spawn",
                                           !.lockDir = TRUE]
  /\ LaunchFrame

\* line 290: python3 -m http.server ... &
ServerSpawned ==
  /\ \E l \in Launches :
       /\ webview.pc[l] = "spawn"
       /\ webview' = [webview EXCEPT
            !.pc[l] = "echo",
            !.child[l] = <<Len(webview.servers) + 1>>,
            !.servers = Append(@, "starting")]
  /\ LaunchFrame

\* line 291: echo "$!" > "$SERVER_PID_FILE"
PidFileWritten ==
  /\ \E l \in Launches :
       /\ webview.pc[l] = "echo"
       /\ webview' = [webview EXCEPT !.pc[l] = "rmdir",
                                      !.pidFile = webview.child[l]]
  /\ LaunchFrame

\* line 292: rmdir "$SERVER_LOCK_DIR"
LockReleased ==
  /\ \E l \in Launches :
       /\ webview.pc[l] = "rmdir"
       /\ webview' = [webview EXCEPT !.pc[l] = "done", !.lockDir = FALSE]
  /\ LaunchFrame

\* a server process binds 127.0.0.1:5175, or finds the port taken by
\* another server and exits
ServerBinds ==
  /\ \E pid \in DOMAIN webview.servers :
       /\ webview.servers[pid] = "starting"
       /\ webview' = [webview EXCEPT !.servers[pid] =
            IF \E q \in DOMAIN webview.servers :
                 webview.servers[q] = "listening"
            THEN "dead" ELSE "listening"]
  /\ LaunchFrame

\* ------------------------------------------------------------------------
\* Specification
\* ------------------------------------------------------------------------

\* the module has been evaluated: ipcMain.handle and
\* Menu.setApplicationMenu are patched, nothing else has happened
InitBeforeLaunch(wins) ==
  /\ appState = "loaded"
  /\ currentBuildNumber = <<>>
  /\ updateAvailable = FALSE
  /\ latestRemoteBuild = <<>>
  /\ inflight = EmptyBag
  /\ everNewer = FALSE
  /\ windows = [w \in wins |-> "closed"]
  /\ prompts = <<>>
  /\ children = <<>>
  /\ installLog = <<>>
  /\ relaunches = 0
  /\ startupTimer = <<>>
  /\ intervalTimer = <<>>
  /\ relaunchTimers = <<>>
  /\ done = Nothing
  /\ stampFile = NoStamp
  /\ installDir = EmptyInstallDir
  /\ workDir = NoWork
  /\ run = IdleRun
  /\ dmgCache = [path \in CachePaths |-> FileBundle("dmg1")]

\* as above, and start.sh has not been run
InitStateOf(wins) == InitBeforeLaunch(wins) /\ webview = NoLaunches

InitState == InitStateOf(Windows)

InitUpdater ==
  /\ env \in Installations
  /\ InitState

NoHandlers == [c \in Channels |-> <<>>]
NoMenu == [set |-> FALSE, isNull |-> FALSE, items |-> <<>>]

\* Spec: the updater inside an application whose main script, which runs
\* right after the module is loaded, has registered its message-from-view
\* handler and set its menu bar through the patched entry points.
Init ==
  /\ InitUpdater
  /\ files \in {fs \in SUBSET {getInstallerPath, DmgPath(getInstallerPath)} :
                  DmgPath(getInstallerPath) \in fs}
  /\ handlers = originalHandle(NoHandlers, MessageFromView,
                  patchedHandle(MessageFromView, AppHandler(MessageFromView)))
  /\ menu = PatchedMenu(MenuBar)

InitFiles == SUBSET {getInstallerPath, DmgPath(getInstallerPath)}

\* SpecInstall: as Spec, with any combination of install.sh and the cached
\* Codex.dmg on disk.
InitInstall ==
  /\ InitUpdater
  /\ files \in InitFiles
  /\ handlers = originalHandle(NoHandlers, MessageFromView,
                  patchedHandle(MessageFromView, AppHandler(MessageFromView)))
  /\ menu = PatchedMenu(MenuBar)

WindowChanges == \E w \in DOMAIN windows : WindowOpen(w) \/ WindowClose(w)
RendererInvokes ==
  \E channel \in Channels, message \in Messages : IpcInvoke(channel, message)

Next ==
  \/ WhenReady
  \/ MenuClick
  \/ IpcCheck
  \/ StartupFire
  \/ IntervalFire
  \/ Advance
  \/ FetchSettles
  \/ PromptAnswered
  \/ RelaunchTimerFires
  \/ WindowChanges

Spec == Init /\ [][Next]_vars

\* SpecInstall: the install flow.  Background checks are silent, open no
\* prompt and touch none of the install state, so they are left out.
NextInstall ==
  \/ WhenReady
  \/ WindowChanges
  \/ IpcCheck
  \/ FetchSettles
  \/ PromptAnswered
  \/ RendererInvokes
  \/ Advance
  \/ RelaunchTimerFires
  \/ InstallerRemoved

SpecInstall == InitInstall /\ [][NextInstall]_vars

\* SpecIpc: the application registers its handlers through the patched
\* ipcMain.handle, in any order and before or after the application is
\* ready, and renderers invoke them.
InitIpc ==
  /\ InitUpdater
  /\ files \in InitFiles
  /\ handlers = NoHandlers
  /\ menu = NoMenu

AppRegistersHandler == \E channel \in Channels : AppHandle(channel)

NextIpc ==
  \/ AppRegistersHandler
  \/ WhenReady
  \/ WindowChanges
  \/ RendererInvokes

SpecIpc == InitIpc /\ [][NextIpc]_vars

\* SpecLive: the background scheduler over the whole life of the process,
\* which ends when an install requested by the renderer relaunches the
\* application.  The event loop runs every callback that is due: the
\* whenReady callbacks, the timers and the continuation of a settled fetch.
NextLive ==
  \/ WhenReady
  \/ StartupFire
  \/ IntervalFire
  \/ Advance
  \/ FetchSettles
  \/ WindowChanges
  \/ RendererInvokes
  \/ RelaunchTimerFires

Fairness ==
  /\ WF_vars(WhenReady)
  /\ WF_vars(StartupFire)
  /\ WF_vars(IntervalFire)
  /\ WF_vars(Advance)
  /\ WF_vars(FetchSettles)
  /\ WF_vars(RelaunchTimerFires)

SpecLive == Init /\ [][NextLive]_vars /\ Fairness

\* SpecBuild: checks from the menu and the timers over every kind of
\* package.json, which may be replaced at any time.
InitBuild ==
  /\ env \in {[installer |-> [set |-> FALSE, value |-> <<>>], pkg |-> pkg] :
                pkg \in Packages}
  /\ InitState
  /\ files = {getInstallerPath, DmgPath(getInstallerPath)}
  /\ handlers = originalHandle(NoHandlers, MessageFromView,
                  patchedHandle(MessageFromView, AppHandler(MessageFromView)))
  /\ menu = PatchedMenu(MenuBar)

NextBuild ==
  \/ WhenReady
  \/ MenuClick
  \/ StartupFire
  \/ IntervalFire
  \/ Advance
  \/ FetchSettles
  \/ BundleReplaced

SpecBuild == InitBuild /\ [][NextBuild]_vars

\* SpecNet: checks against a server that may answer, fail, or accept the
\* connection and go silent.  The event loop runs the callbacks that are
\* due, the socket timeout among them; nothing obliges the server to answer
\* or the user to act.
NextNet ==
  \/ WhenReady
  \/ WindowChanges
  \/ IpcCheck
  \/ StartupFire
  \/ IntervalFire
  \/ Advance
  \/ FetchSettles
  \/ SocketTimesOut
  \/ ConnectionBreaks
  \/ PromptAnswered

FairnessNet ==
  /\ WF_vars(WhenReady)
  /\ WF_vars(StartupFire)
  /\ WF_vars(IntervalFire)
  /\ WF_vars(Advance)
  /\ WF_vars(SocketTimesOut)

SpecNet == Init /\ [][NextNet]_vars /\ FairnessNet

\* SpecPipeline: runs of install.sh, one after the other, on an install
\* directory that starts empty; the application is not running.
InitPipeline ==
  /\ InitState
  /\ env \in {i \in Installations : i.installer.set}
  /\ files = {getInstallerPath, DmgPath(getInstallerPath)}
  /\ handlers = NoHandlers
  /\ menu = NoMenu

NextPipeline ==
  \/ RunStarts
  \/ ResolveDmg
  \/ StageSucceeds
  \/ CheckStamp
  \/ StampOpens
  \/ StampWritten
  \/ StageFails
  \/ Killed

SpecPipeline == InitPipeline /\ [][NextPipeline]_vars

\* SpecCli: install.sh started with each word of the command line surface,
\* with and without a cached Codex.dmg next to the script.
InitCli ==
  /\ InitState
  /\ env \in {i \in Installations : i.installer.set}
  /\ files \in {{getInstallerPath}, {getInstallerPath, DmgPath(getInstallerPath)}}
  /\ handlers = NoHandlers
  /\ menu = NoMenu

NextCli ==
  \/ CliRunStarts
  \/ ResolveDmg
  \/ StageSucceeds
  \/ CheckStamp
  \/ StampOpens
  \/ StampWritten
  \/ StageFails

SpecCli == InitCli /\ [][NextCli]_vars

\* SpecArtifact: runs on one bundle and one architecture, while the
\* linux-updater.js next to install.sh changes between runs (a git pull of
\* the repository).
NextArtifact ==
  \/ ArtifactRunStarts
  \/ ResolveDmg
  \/ StageSucceeds
  \/ CheckStamp
  \/ StampOpens
  \/ StampWritten
  \/ StageFails

SpecArtifact == InitPipeline /\ [][NextArtifact]_vars

\* SpecNotify: manual and startup checks in an application with one window
\* more than Spec has, so that a destroyed window and a live one exist at
\* the same time.
NotifyWindows == 1 .. (MaxWindows + 1)

InitNotify ==
  /\ env \in Installations
  /\ InitStateOf(NotifyWindows)
  /\ files = {getInstallerPath, DmgPath(getInstallerPath)}
  /\ handlers = originalHandle(NoHandlers, MessageFromView,
                  patchedHandle(MessageFromView, AppHandler(MessageFromView)))
  /\ menu = PatchedMenu(MenuBar)

NextNotify ==
  \/ WhenReady
  \/ MenuClick
  \/ StartupFire
  \/ Advance
  \/ FetchSettles
  \/ PromptAnswered
  \/ WindowChanges

SpecNotify == InitNotify /\ [][NextNotify]_vars

\* SpecRuntime: runs that differ in the architecture of the host and in
\* what the checksum list says; no command fails for another reason.
NextRuntime ==
  \/ RuntimeRunStarts
  \/ ResolveDmg
  \/ StageSucceeds
  \/ CheckStamp
  \/ StampOpens
  \/ StampWritten
  \/ StageRefuses

SpecRuntime == InitPipeline /\ [][NextRuntime]_vars

\* SpecSource: runs with and without a named disk image, with and without
\* a cached Codex.dmg, on a network that serves the image, serves an error
\* page, serves nothing or is down; no command fails for another reason.
NextSource ==
  \/ SourceRunStarts
  \/ ResolveDmg
  \/ StageSucceeds
  \/ CheckStamp
  \/ StampOpens
  \/ StampWritten
  \/ StageRefuses

SpecSource == InitCli /\ [][NextSource]_vars

\* SpecDownload: as SpecSource, and a run can be killed at any point
NextDownload ==
  \/ SourceRunStarts
  \/ ResolveDmg
  \/ StageSucceeds
  \/ CheckStamp
  \/ StampOpens
  \/ StampWritten
  \/ StageRefuses
  \/ Killed

SpecDownload == InitCli /\ [][NextDownload]_vars

\* SpecLaunch: start.sh is run up to MaxLaunches times at once in an
\* installation whose pid file is absent or left over from an earlier
\* session; the application itself and the installer are not looked at.
InitLaunch ==
  /\ InitBeforeLaunch(Windows)
  /\ env \in {i \in Installations : i.installer.set}
  /\ files = {getInstallerPath}
  /\ handlers = NoHandlers
  /\ menu = NoMenu
  /\ webview \in {NoLaunches, [NoLaunches EXCEPT !.pidFile = StalePidFile]}

NextLaunch ==
  \/ LaunchStarts
  \/ PidFileTested
  \/ LockTried
  \/ ServerSpawned
  \/ PidFileWritten
  \/ LockReleased
  \/ ServerBinds

SpecLaunch == InitLaunch /\ [][NextLaunch]_vars

\* SpecAssemble: runs on hosts with different icon tools over an install
\* directory that holds files of its owner; no command fails.
NextAssemble ==
  \/ AssembleRunStarts
  \/ FilePlaced
  \/ ResolveDmg
  \/ StageSucceeds
  \/ CheckStamp
  \/ StampOpens
  \/ StampWritten

SpecAssemble == InitPipeline /\ [][NextAssemble]_vars

\* SpecTrigger: the user asks for a check, confirms the install, and the
\* spawned installer runs; install.sh was found through the environment
\* variable or through the fallback, its directory holds a Codex.dmg from
\* an earlier run, and the directory is the user's own or another user's.
InitTrigger ==
  /\ InitState
  /\ env \in {[installer |-> i.installer, pkg |-> i.pkg, readonly |-> r] :
                i \in Installations, r \in BOOLEAN}
  /\ files = {getInstallerPath, DmgPath(getInstallerPath)}
  /\ handlers = originalHandle(NoHandlers, MessageFromView,
                  patchedHandle(MessageFromView, AppHandler(MessageFromView)))
  /\ menu = PatchedMenu(MenuBar)

NextTrigger ==
  \/ WhenReady
  \/ MenuClick
  \/ FetchSettles
  \/ PromptAnswered
  \/ ChildRuns
  \/ ResolveDmg
  \/ StageSucceeds
  \/ CheckStamp
  \/ StampOpens
  \/ StampWritten

SpecTrigger == InitTrigger /\ [][NextTrigger]_vars

\* SpecMenu: the application sets and replaces its menu at any time, and
\* the user clicks the patched items.
NextMenu ==
  \/ AppSetsMenu
  \/ WhenReady
  \/ MenuClick
  \/ FetchSettles
  \/ PromptAnswered

SpecMenu == InitIpc /\ [][NextMenu]_vars

\* SpecRelaunch: the user asks for checks and confirms installs, the
\* installer the updater spawned first runs as a pipeline run, and the
\* application relaunches while that run goes on.  The background checks
\* are silent and open no prompt; they are left out, so time passes only
\* up to the moment the first of them is due.
NextRelaunch ==
  \/ WhenReady
  \/ MenuClick
  \/ FetchSettles
  \/ PromptAnswered
  \/ Advance
  \/ RelaunchTimerFires
  \/ Relaunched
  \/ ChildRuns
  \/ ResolveDmg
  \/ StageSucceeds
  \/ CheckStamp
  \/ StampOpens
  \/ StampWritten

\* an installation started through start.sh, install.sh in place
InitRelaunch ==
  /\ Init
  /\ env.installer.set
  /\ getInstallerPath \in files

SpecRelaunch == InitRelaunch /\ [][NextRelaunch]_vars


\* ------------------------------------------------------------------------
\* Properties of the update check
\* ------------------------------------------------------------------------

IsInstallPrompt(d) == d.title = "Update Available"
InstallPromptsIn(dialogs) ==
  {i \in 1 .. Len(dialogs) : IsInstallPrompt(dialogs[i])}
LiveWindows == {w \in DOMAIN windows : windows[w] = "live"}
FailedFeeds == {"unreachable", "status", "notoken"}

\* C1: a check whose fetch succeeded and whose feed parsed to a remote build
\* R reports isUpdateAvailable exactly when R is greater than the local
\* build L, silent or not; when R <= L it sends nothing to the renderer and
\* opens no install prompt.
C1_AvailableIffNewer ==
  (done.kind = "check" /\ done.remote # <<>>) =>
    /\ done.isUpdateAvailable = (done.remote[1] > done.local)
    /\ (done.remote[1] <= done.local =>
          /\ done.sent = {}
          /\ InstallPromptsIn(done.dialogs) = {})

C1_Witness ==
  /\ done.kind = "check"
  /\ done.remote # <<>>
  /\ done.remote[1] < done.local
  /\ ~done.silent
  /\ LiveWindows # {}

\* C2: a silent check shows no dialog of any kind, whatever the fetch did
\* and whatever the feed held: no error dialog, no "up to date" notice and
\* no install prompt.
C2_SilentShowsNothing ==
  (done.kind = "check" /\ done.silent) => done.dialogs = <<>>

C2_Witness ==
  /\ done.kind = "check"
  /\ done.silent
  /\ done.isUpdateAvailable
  /\ LiveWindows # {}

\* C3: a check whose feed was unreachable, answered with a status other
\* than 200 or held no version token resolves with isUpdateAvailable false,
\* leaves updateAvailable and latestRemoteBuild as they were, takes no
\* remote build from the document and sends nothing to the renderer.
C3_FailureChangesNothing ==
  [][(done'.kind = "check" /\ done'.feed \in FailedFeeds) =>
       /\ done'.settled = "resolved"
       /\ ~done'.isUpdateAvailable
       /\ done'.remote = <<>>
       /\ done'.sent = {}
       /\ updateAvailable' = updateAvailable
       /\ latestRemoteBuild' = latestRemoteBuild]_vars

C3_Witness ==
  /\ done.kind = "check"
  /\ done.feed = "notoken"
  /\ updateAvailable
  /\ latestRemoteBuild # <<>>

\* C4: a completed check that is not silent has shown exactly one dialog:
\* the error dialog when the fetch or the parse failed, the "No Updates
\* Available" notice when R <= L, the install prompt when R > L.
C4_ManualShowsOneDialog ==
  (done.kind = "check" /\ ~done.silent) =>
    /\ Len(done.dialogs) = 1
    /\ done.feed \in FailedFeeds =>
         (done.dialogs[1].type = "error"
            /\ done.dialogs[1].title = "Update Check Failed")
    /\ (done.feed = "token" /\ done.remote[1] <= done.local) =>
         done.dialogs[1].title = "No Updates Available"
    /\ (done.feed = "token" /\ done.remote[1] > done.local) =>
         IsInstallPrompt(done.dialogs[1])

C4_Witness ==
  /\ done.kind = "check"
  /\ ~done.silent
  /\ done.feed = "token"
  /\ done.remote[1] > done.local
  /\ Len(prompts) = 1

\* C5: updateAvailable never goes from true to false, every message sent to
\* a renderer carries isUpdateReady = true, and after any interleaving of
\* checks the flag is true exactly when some completed check saw R > L.
C5_FlagMonotone ==
  /\ [](updateAvailable = everNewer)
  /\ [](done.kind = "check" => \A m \in done.sent : m.isUpdateReady = TRUE)
  /\ [][updateAvailable => updateAvailable']_vars

C5_Witness ==
  /\ done.kind = "check"
  /\ ~done.isUpdateAvailable
  /\ done.feed = "token"
  /\ updateAvailable
  /\ BagCardinality(inflight) >= 1

\* C6: a check that is not silent and finds R > L returns true, sends the
\* update-ready message to every live window and opens one install prompt;
\* answering the prompt runs the installer once when the installer was
\* found and the user chose "Install & Restart", and not at all when the
\* user chose "Later" or the installer was missing.
C6_PromptThenInstall ==
  /\ (done.kind = "check" /\ ~done.silent /\ done.remote # <<>>
        /\ done.remote[1] > done.local) =>
       /\ done.isUpdateAvailable
       /\ {m.win : m \in done.sent} = LiveWindows
       /\ Cardinality(InstallPromptsIn(done.dialogs)) = 1
  /\ done.kind = "prompt" =>
       IF done.prompt.installerExists /\ done.response = 0
       THEN /\ done.effect.logged = RunInstallerSteps
            /\ Len(done.effect.spawned) = 1
       ELSE /\ done.effect.logged = <<>>
            /\ done.effect.spawned = <<>>

C6_Witness ==
  /\ done.kind = "prompt"
  /\ done.prompt.installerExists
  /\ done.response = 0
  /\ Len(children) = 1
  /\ updateAvailable

\* ------------------------------------------------------------------------
\* Properties of the install flow
\* ------------------------------------------------------------------------

NoEffect(e) ==
  /\ e.spawned = <<>>
  /\ e.logged = <<>>
  /\ e.timers = <<>>
  /\ e.removed = {}

\* C7: when install.sh is not at the resolved path, the install prompt and
\* the answer to an install-app-update message both show a dialog that
\* names the path, and the handler does nothing else: Codex.dmg stays, no
\* subprocess is spawned, no relaunch timer is armed and the application
\* keeps running.
C7_MissingInstallerOnlyReports ==
  /\ \A i \in 1 .. Len(prompts) :
       ~prompts[i].installerExists =>
         /\ prompts[i].installerPath = getInstallerPath
         /\ prompts[i].dialog.path = getInstallerPath
  /\ (done.kind = "prompt" /\ ~done.prompt.installerExists) =>
       /\ done.prompt.dialog.path = getInstallerPath
       /\ NoEffect(done.effect)
       /\ appState = "ready"
  /\ (done.kind = "invoke" /\ done.channel = MessageFromView
        /\ done.message.present /\ done.message.type = "install-app-update"
        /\ ~done.installerExists) =>
       /\ Len(done.dialogs) = 1
       /\ done.dialogs[1].path = getInstallerPath
       /\ NoEffect(done.effect)
       /\ appState = "ready"

C7_Witness ==
  /\ done.kind = "invoke"
  /\ done.channel = MessageFromView
  /\ done.message.present
  /\ done.message.type = "install-app-update"
  /\ ~done.installerExists
  /\ DmgPath(getInstallerPath) \in files

StepBefore(log, i, op) == i > 1 /\ log[i - 1] = op

\* C8: runInstaller unlinks Codex.dmg (present or not), then spawns
\* "bash install.sh --force" detached, then arms the relaunch timer with the
\* fixed delay, all in one run of the handler; the application relaunches
\* and exits only from a due relaunch timer, so never before the spawn.
C8_InstallOrder ==
  /\ [](/\ \A i \in 1 .. Len(installLog) :
             /\ installLog[i] = "spawn" => StepBefore(installLog, i, "unlink")
             /\ installLog[i] = "setTimeout" => StepBefore(installLog, i, "spawn")
             /\ installLog[i] = "exit" => StepBefore(installLog, i, "relaunch")
             /\ installLog[i] = "relaunch" =>
                  \E j \in 1 .. (i - 1) : installLog[j] = "spawn"
        /\ \A i \in 1 .. Len(children) :
             /\ children[i].detached
             /\ children[i].args = <<getInstallerPath, "--force">>
        /\ children # <<>> => DmgPath(getInstallerPath) \notin files
        /\ (done.kind \in {"prompt", "invoke"} /\ ~NoEffect(done.effect)) =>
             /\ done.effect.logged = <<"unlink", "spawn", "setTimeout">>
             /\ Len(done.effect.spawned) = 1
             /\ done.effect.timers = <<RelaunchDelayMs>>
        /\ appState = "exited" => (children # <<>> /\ relaunches >= 1))
  /\ [][appState' # appState /\ appState' = "exited" =>
          \E i \in 1 .. Len(relaunchTimers) : relaunchTimers[i] = 0]_vars

C8_Witness ==
  /\ appState = "exited"
  /\ installLog = <<"unlink", "spawn", "setTimeout", "relaunch", "exit">>
  /\ Len(children) = 1

\* ------------------------------------------------------------------------
\* Properties of the IPC patch
\* ------------------------------------------------------------------------

\* C9: on message-from-view an install-app-update message never reaches the
\* application's handler and is answered by the updater (install or error
\* dialog); any other message reaches the application's handler once and its
\* result is returned as it is; a handler registered on another channel is
\* stored as given.
C9_InterceptsInstallOnly ==
  /\ (done.kind = "invoke" /\ done.channel = MessageFromView) =>
       IF done.message.present /\ done.message.type = "install-app-update"
       THEN /\ done.appCalls = <<>>
            /\ done.result = Undefined
            /\ (done.dialogs # <<>> \/ done.effect.spawned # <<>>)
       ELSE /\ done.appCalls = <<[handler |-> AppHandler(MessageFromView),
                                  message |-> done.message]>>
            /\ done.result =
                 ApplicationResult(AppHandler(MessageFromView), done.message)
            /\ done.dialogs = <<>>
            /\ NoEffect(done.effect)
  /\ \A channel \in Channels \ {MessageFromView} :
       handlers[channel] \in {<<>>, AppHandler(channel), CheckHandler}
  /\ (done.kind = "handle" /\ done.channel # MessageFromView) =>
       handlers[done.channel] = done.handler

C9_Witness ==
  /\ done.kind = "invoke"
  /\ done.channel = MessageFromView
  /\ done.message.present
  /\ done.message.type = "install-app-update"
  /\ done.effect.spawned # <<>>
  /\ \E channel \in Channels \ {MessageFromView} :
       handlers[channel] = AppHandler(channel)

\* ------------------------------------------------------------------------
\* Properties of the background scheduler
\* ------------------------------------------------------------------------

SchedulerStart(origin) == done.kind = "start" /\ done.origin = origin

ScheduledInFlight ==
  {c \in BagToSet(inflight) : c.silent}
ScheduledInFlightCount ==
  IF ScheduledInFlight = {} THEN 0
  ELSE LET Sum[S \in SUBSET ScheduledInFlight] ==
             IF S = {} THEN 0
             ELSE LET c == CHOOSE x \in S : TRUE
                  IN  CopiesIn(c, inflight) + Sum[S \ {c}]
       IN  Sum[ScheduledInFlight]

\* C11: at most one check started by the background timers is in flight at
\* any time.
C11_SchedulerNeverOverlaps == ScheduledInFlightCount <= 1

TimedOutInFlight == \E c \in BagToSet(inflight) : c.net = "idle"

BuildField(pkg) ==
  IF pkg.kind = "json" /\ pkg.present /\ pkg.text # <<>>
       /\ \A i \in 1 .. Len(pkg.text) : pkg.text[i] \in Digits
  THEN DecimalValue(pkg.text)
  ELSE 0

\* C14: the local build is resolved once: the first call of
\* getCurrentBuildNumber caches the build of package.json, or 0 when the
\* file is missing, is not JSON or has no numeric codexBuildNumber; the
\* cached value never changes afterwards and every check works with it,
\* whatever package.json has become.
C14_BuildResolvedOnce ==
  /\ [](done.kind = "start" => currentBuildNumber = <<done.local>>)
  /\ [][currentBuildNumber # <<>> => currentBuildNumber' = currentBuildNumber]_vars
  /\ [][(currentBuildNumber = <<>> /\ currentBuildNumber' # <<>>) =>
          currentBuildNumber' = <<BuildField(env.pkg)>>]_vars

C14_Witness ==
  /\ done.kind = "start"
  /\ currentBuildNumber = <<0>>
  /\ BuildField(env.pkg) = 2

\* ------------------------------------------------------------------------
\* Properties of the installer pipeline
\* ------------------------------------------------------------------------

\* the stages after the stamp test: unpack, strip, rebuild, inject, repack,
\* runtime, assemble, stamp
RebuildStages ==
  {Stages[i] : i \in (StageIndex("check_stamp") + 1)..Len(Stages)}

StagesRun == {run.log[i].stage : i \in DOMAIN run.log}

\* the stamp test of the running run finds the fingerprint in the stamp
StampMatches ==
  check_stamp(stampFile, run.source[1], run.version[1], run.arch)

\* C15: a run without --force whose fingerprint equals the stamp ends at the
\* stamp test with status 0: it is not forced, the stamp is the one it found
\* and still equals its fingerprint, none of the stages unpack, strip,
\* rebuild, inject, repack, runtime, assemble and stamp has run, and no step
\* of a run up to and including the stamp test changes the install
\* directory or the stamp.
C15_ShortCircuitIsNoOp ==
  /\ [](run.state = "uptodate" =>
         /\ run.exit = <<0>>
         /\ ~run.force
         /\ StampMatches
         /\ stampFile = run.stampBefore
         /\ StagesRun \cap RebuildStages = {})
  /\ [][(/\ Running
         /\ Stage = "check_stamp"
         /\ ~run.force
         /\ StampMatches
         /\ run' # run
         /\ run'.state # "killed") => run'.state = "uptodate"]_vars
  /\ [][(/\ run'.state \in {"running", "uptodate"}
         /\ run'.pc <= StageIndex("check_stamp"))
           => (installDir' = installDir /\ stampFile' = stampFile)]_vars

C15_Witness ==
  /\ run.state = "uptodate"
  /\ installDir.app.kind = "asar"
  /\ installDir.runtime.kind = "electron"

\* the fingerprint of the running run
Fingerprint == compute_stamp(run.source[1], run.version[1], run.arch)

\* C16: the stamp test ends the run as up to date if and only if --force
\* was not given, the stamp file exists and its text is the fingerprint just
\* computed; otherwise the run goes on to the asar extraction.  A run that
\* is past the test was forced or found no stamp equal to its fingerprint,
\* and a run that completes has run every stage of main, in order.
C16_ShortCircuitIffUnforcedMatch ==
  /\ [][(/\ Running
         /\ Stage = "check_stamp"
         /\ run' # run
         /\ run'.state # "killed")
           => /\ (run'.state = "uptodate") <=>
                   (/\ ~run.force
                    /\ stampFile.present
                    /\ stampFile.text = Fingerprint)
              /\ run'.state # "uptodate" =>
                   (/\ run'.state = "running"
                    /\ Stages[run'.pc] = "asar_extract")]_vars
  /\ [](run.pc > StageIndex("check_stamp") =>
         \/ run.force
         \/ ~run.stampBefore.present
         \/ run.stampBefore.text # Fingerprint)
  /\ [](run.state = "done" =>
         /\ [i \in DOMAIN run.log |-> run.log[i].stage] = Stages
         /\ \A i \in DOMAIN run.log : run.log[i].ok)

\* a run without --force over an installation made on another architecture
\* from the same bundle goes on to the rebuild
C16_Witness ==
  /\ Running
  /\ Stage = "asar_extract"
  /\ ~run.force
  /\ stampFile.present
  /\ \E arch \in Archs \ {run.arch} :
       stampFile.text = compute_stamp(run.source[1], run.version[1], arch)

\* C17: the stamp is all or nothing.  Whenever no run is in progress the
\* stamp file is absent, or is as the last run found it, or holds the
\* fingerprint of the last run, which completed.
C17_StampAllOrNothing ==
  ~Running =>
    \/ ~stampFile.present
    \/ stampFile = run.stampBefore
    \/ (run.state = "done" /\ stampFile.text = Fingerprint)

\* what a run of main in which every stage succeeds leaves in $INSTALL_DIR
OutputOf(bundle, arch, module) ==
  LET version == detect_electron_version(bundle)
      asar == patch_asar(bundle, version, arch, module)
  IN  install_desktop_entry(
        create_start_script(
          install_app(
            extract_webview(
              download_electron(EmptyInstallDir, version, arch), asar),
            asar)),
        DefaultWorld.tools, DefaultWorld.listing)

\* C18: whenever no run is in progress and the stamp file holds the
\* fingerprint of a bundle and an architecture, the install directory is
\* the complete output of a successful run on that bundle and architecture.
C18_NoPartialUnderValidStamp ==
  ~Running =>
    \A bundle \in Bundles, arch \in Archs :
      (/\ stampFile.present
       /\ stampFile.text =
            compute_stamp(bundle, detect_electron_version(bundle), arch))
        => \E module \in UpdaterModules :
             installDir = OutputOf(bundle, arch, module)

\* C19: after every forced run that completes, whatever runs came before
\* it, main.js of the installed app.asar holds exactly one load directive
\* for the updater module.
C19_ExactlyOneDirective ==
  (run.state = "done" /\ run.force) =>
    /\ installDir.app.kind = "asar"
    /\ DirectiveCount(installDir.app.asar.entry) = 1

\* C20: the pipeline is fail-fast.  A stage that failed is the last stage
\* the run executed and the run has ended as failed with a status other
\* than 0; no stage appears twice in a run; after the failure nothing of the
\* run executes and nothing is written until another run starts; a run with
\* status 0 completed or took the short-circuit, and every stage it
\* executed succeeded.
C20_FailFast ==
  /\ [](\A i \in DOMAIN run.log :
          ~run.log[i].ok =>
            /\ i = Len(run.log)
            /\ run.state = "failed"
            /\ run.exit # <<>>
            /\ run.exit # <<0>>)
  /\ [](\A i, j \in DOMAIN run.log :
          run.log[i].stage = run.log[j].stage => i = j)
  /\ [](run.state = "failed" =>
          /\ run.log # <<>>
          /\ ~run.log[Len(run.log)].ok)
  /\ [](run.exit = <<0>> =>
          /\ run.state \in {"done", "uptodate"}
          /\ \A i \in DOMAIN run.log : run.log[i].ok)
  /\ [][run.state = "failed" =>
          /\ installDir' = installDir
          /\ stampFile' = stampFile
          /\ run'.log = run.log \/ (run'.state = "running" /\ run'.pc = 1)
       ]_vars

\* a run that failed in the rebuild of the native modules, after five
\* stages and the stamp test
C20_Witness ==
  /\ run.state = "failed"
  /\ run.exit = <<1>>
  /\ Stages[run.pc] = "build_native_modules"
  /\ Len(run.log) = StageIndex("build_native_modules")

\* the stages that convert: the fetch of the source bundle, its extraction,
\* the patch of app.asar, the download of the runtime and the assembly of
\* the install directory
ConversionStages ==
  {"get_dmg", "extract_dmg", "asar_extract", "strip_sparkle",
   "build_native_modules", "inject_updater", "asar_pack",
   "download_electron", "extract_webview", "install_app",
   "create_start_script"}

GivenWord(word) == \E i \in DOMAIN run.args : run.args[i] = word

\* C21: a run given --help, --uninstall or --repair-desktop executes no
\* conversion stage, and a run given --help or --uninstall that has ended
\* has status 0.
C21_AdminFlagsConvertNothing ==
  /\ (GivenWord("--help") \/ GivenWord("--uninstall")
        \/ GivenWord("--repair-desktop"))
       => StagesRun \cap ConversionStages = {}
  /\ ((GivenWord("--help") \/ GivenWord("--uninstall")) /\ ~Running)
       => run.exit = <<0>>

\* C22: the installed artifact is a function of the fingerprint alone.
\* After a run that completed, the install directory equals what a run into
\* an empty directory produces from the same bundle and architecture,
\* whichever linux-updater.js lies next to the script.
C22_ArtifactFromFingerprintAlone ==
  run.state = "done" =>
    \A module \in UpdaterModules :
      installDir = OutputOf(run.source[1], run.arch, module)

\* main.js as one sequence of tokens
RECURSIVE Flatten(_)
Flatten(lines) ==
  IF lines = <<>> THEN <<>> ELSE Head(lines) \o Flatten(Tail(lines))

\* main.js loads the updater module before any application code
LoadsUpdaterFirst(lines) ==
  LET tokens == Flatten(lines)
      load == FirstIndex(tokens, LoadDirective, 1)
      code == FirstIndex(tokens, Code, 1)
  IN  load > 0 /\ (code = 0 \/ load < code)

\* C23: the app.asar installed by a run that completed holds the updater
\* module and its main.js loads the module before any application code (a
\* run that cannot insert the directive does not complete).
C23_SucceededRunLoadsUpdater ==
  run.state = "done" =>
    /\ installDir.app.kind = "asar"
    /\ installDir.app.asar.updater # <<>>
    /\ LoadsUpdaterFirst(installDir.app.asar.entry)

------------------------------------------------------------------------
\* Properties of the update state and its notifications

\* a step in which an install prompt opens
PromptOpens == Len(prompts') > Len(prompts)

\* C24: install prompts are gated on the none -> available transition: a
\* check that resumes while the update state is already available, whether
\* a later check or the second of two overlapping ones, opens no install
\* prompt.
C24_PromptOnlyOnTransition == [][updateAvailable => ~PromptOpens]_vars

\* a completed check that parsed a build newer than the local one
PositiveCheck(d) ==
  d.kind = "check" /\ d.remote # <<>> /\ d.remote[1] > d.local

\* C25: every check that finds R > L, silent or not and whether or not the
\* update state was already available, sends one app-update-ready-changed
\* message with payload true to every window live at that moment, a
\* destroyed window notwithstanding; a step that opens or closes a window
\* sends nothing.
C25_NotifiesEveryLiveWindow ==
  /\ [](PositiveCheck(done) =>
          /\ {m.win : m \in done.sent} = LiveWindows
          /\ Cardinality(done.sent) = Cardinality(LiveWindows)
          /\ \A m \in done.sent :
               /\ m.type = "app-update-ready-changed"
               /\ m.isUpdateReady = TRUE)
  /\ [][(updateAvailable /\ PositiveCheck(done') /\ done' # done) =>
          {m.win : m \in done'.sent} = {w \in DOMAIN windows : windows[w] = "live"}]_vars
  /\ [][windows' # windows => done'.kind # "check"]_vars

C25_Witness ==
  /\ PositiveCheck(done)
  /\ done.silent
  /\ \E u, v \in DOMAIN windows :
       /\ u < v
       /\ windows[u] = "destroyed"
       /\ windows[v] = "live"
       /\ v \in {m.win : m \in done.sent}

\* the callers of checkForUpdates: the menu item, the renderer's request
\* and the two timers
CheckOrigins == {"menu", "ipc", "startup", "interval"}

\* C30: one invocation of checkForUpdates performs exactly one fetch: a
\* request is opened only by a call of checkForUpdates from the user or a
\* timer, one per call, and a check that completes, its fetch failed or its
\* feed unparsable included, closes its one request and opens no other.
C30_OneFetchPerCheck ==
  /\ [][BagCardinality(inflight') > BagCardinality(inflight) =>
          /\ BagCardinality(inflight') = BagCardinality(inflight) + 1
          /\ done'.kind = "start"
          /\ done'.origin \in CheckOrigins]_vars
  /\ [][(done'.kind = "check" /\ done' # done) =>
          BagCardinality(inflight') = BagCardinality(inflight) - 1]_vars
  /\ [][(done'.kind = "start" /\ done' # done) =>
          BagCardinality(inflight') = BagCardinality(inflight) + 1]_vars

C30_Witness ==
  /\ done.kind = "check"
  /\ done.feed \in {"unreachable", "notoken"}
  /\ inflight = EmptyBag
  /\ ~updateAvailable

------------------------------------------------------------------------
\* Properties of the acquisition of the runtime and of the source bundle

\* the run has gone past download_electron
PastRuntime == run.pc > StageIndex("download_electron")

\* C26: an unsupported architecture ends the run before the runtime is
\* unpacked into the install directory; so does a checksum that is listed
\* and differs; an unreachable checksum list or a list without an entry for
\* the archive produces a warning and the run goes on to its end.
C26_RuntimeAcquisition ==
  /\ []((run.arch \notin ElectronArchs
          \/ run.world.shasums = "mismatch") => ~PastRuntime)
  /\ [][(/\ Running
           /\ Stage = "download_electron"
           /\ (run.arch \notin ElectronArchs
                 \/ run.world.shasums = "mismatch")) =>
            installDir' = installDir]_vars
  /\ []((run.arch \in ElectronArchs
          /\ run.world.shasums \in {"unreachable", "noentry"}) =>
         /\ run.state # "failed"
         /\ PastRuntime => "checksum" \in run.warned)

\* the run has resolved its source bundle
PastGetDmg == run.pc > StageIndex("get_dmg")

\* C27: the source bundle is the file named on the command line when it
\* exists, else the non-empty cached download, used without network
\* access, else a download to the cache path; a download that fails or
\* yields an empty file removes the cache file and ends the run with a
\* non-zero status, so the cached file a run reuses is never what a failed
\* download left behind.
C27_SourceResolution ==
  /\ (PastGetDmg /\ NamesDmg(run.args)) =>
       /\ run.source = <<FileBundle(Positional(run.args)[1])>>
       /\ ~run.fetched
  /\ (PastGetDmg /\ ~NamesDmg(run.args) /\ ~run.fetched) =>
       /\ run.source = <<dmgCache[dmg_dest(run.script)]>>
       /\ IsDmg(run.source[1])
  /\ (PastGetDmg /\ run.fetched) =>
       /\ ~NamesDmg(run.args)
       /\ run.source = <<run.world.net.file>>
       /\ dmgCache[dmg_dest(run.script)] = run.world.net.file
  /\ (run.state = "failed" /\ run.pc = StageIndex("get_dmg")) =>
       /\ dmg_dest(run.script) \notin files
       /\ run.exit = <<1>>

\* C28: a run overwrites only the paths the pipeline produces (the runtime,
\* resources/app.asar, the webview assets, start.sh, the stamp): no step of
\* a run removes or renames another file of the install directory, and the
\* directory is never emptied.
C28_OtherFilesUntouched ==
  [][Running => UserFiles \cap installDir.loose \subseteq installDir'.loose]_vars

\* C29: a run started by the install trigger never builds from a bundle
\* that was cached before the trigger: the updater has removed the file the
\* script would reuse, whichever way the installer path was resolved, so
\* the run that gets past source resolution has fetched its bundle.
C29_TriggeredRunRefetches ==
  (run.state # "idle" /\ PastGetDmg) =>
    /\ run.fetched
    /\ run.source = <<run.world.net.file>>

------------------------------------------------------------------------
\* Properties of the menu integration and of the install trigger

\* patched is orig with nothing changed but enabled and click of the items
\* whose label matches
RECURSIVE OnlyMatchesChanged(_, _)
OnlyMatchesChanged(orig, patched) ==
  /\ Len(orig) = Len(patched)
  /\ \A i \in 1 .. Len(orig) :
       /\ patched[i].label = orig[i].label
       /\ LabelMatches(orig[i].label) \/
            (patched[i].enabled = orig[i].enabled
               /\ patched[i].click = orig[i].click)
       /\ OnlyMatchesChanged(orig[i].submenu, patched[i].submenu)

\* C31: whenever the application menu is set, every item at any depth
\* whose label contains "check for update" in any case is enabled and
\* wired to checkForUpdates with silent = false; no other item is changed,
\* the menu reaches the original setter, and setting the menu changes no
\* state of the updater.
C31_MenuIntegration ==
  /\ [](menu.set =>
          \A item \in AllItems(menu.items) :
            LabelMatches(item.label) =>
              item.enabled /\ item.click = "updater")
  /\ [](done.kind = "menu" =>
          /\ menu.set
          /\ menu.isNull = done.given.isNull
          /\ OnlyMatchesChanged(done.given.items, menu.items))
  /\ []((done.kind = "start" /\ done.origin = "menu") => ~done.silent)
  /\ [][menu' # menu =>
          UNCHANGED <<env, files, appState, currentBuildNumber,
                      updateAvailable, latestRemoteBuild, inflight,
                      everNewer, windows, prompts, children, installLog,
                      relaunches, startupTimer, intervalTimer,
                      relaunchTimers, handlers>>]_vars

C31_Witness ==
  /\ done.kind = "start"
  /\ done.origin = "menu"
  /\ menu.items = patchMenuItems(DeepMenu.items)
  /\ menu.items[1].submenu[1].submenu[1].click = "updater"
  /\ menu.items[1].submenu[1].submenu[2].click = "app"

\* C32: within one application process at most one installer subprocess
\* is ever spawned, and at most one relaunch is scheduled: a further
\* install-app-update message or confirmed prompt between the spawn and the
\* relaunch starts nothing.
C32_AtMostOneInstaller ==
  /\ Len(children) <= 1
  /\ Len(relaunchTimers) + relaunches <= 1

\* a step in which the updater spawns an installer
Spawns == Len(children') > Len(children)

\* C33: across relaunches the updater never starts a pipeline run while a
\* run it triggered earlier is still in progress: the relaunched
\* application spawns no installer while that run is working.
C33_NoConcurrentRunAcrossRelaunch ==
  [][(relaunches >= 1 /\ Spawns) => ~Running]_vars

\* ------------------------------------------------------------------------
\* The update loop, end to end
\* ------------------------------------------------------------------------

\* package.json of the app.asar a run packs.  install.sh never writes
\* codexBuildNumber: the file is the one of the source bundle, and the
\* bundle the download URL serves is build 2.
PackageOf(asar) ==
  [kind |-> "json", present |-> TRUE,
   text |-> IF asar.from = "dmg2" THEN <<"0", "2">> ELSE <<"0">>]

\* a stage of the installer the updater spawned runs to its end; with
\* install_app the package.json under app.getAppPath() becomes the one of
\* the new archive
InstallerStage ==
  /\ StageRuns
  /\ env' = IF Stage = "install_app"
            THEN [env EXCEPT !.pkg = PackageOf(workDir.asar[1])] ELSE env
  /\ UNCHANGED <<files, appState, currentBuildNumber, updateAvailable,
                 latestRemoteBuild, inflight, everNewer, windows, prompts,
                 children, installLog, relaunches, startupTimer,
                 intervalTimer, relaunchTimers, handlers, menu, done,
                 webview>>

\* the appcast of the release the download URL serves: build 2
ReleaseFeed == [kind |-> "response", status |-> 200, body |-> <<"O", "2", "C">>]

\* the server answers a pending request with the appcast of the release
ReleaseFetched == Fetched(ReleaseFeed)

FeedAnswers == \E c \in BagToSet(inflight) : CheckResume(c, ReleaseFetched)

\* the user checks from the menu and answers the prompt, until an install
\* has been triggered; from then on the user does nothing
UserChecks == children = <<>> /\ relaunches = 0 /\ MenuClick
UserAnswers == children = <<>> /\ relaunches = 0 /\ PromptAnswered

\* SpecConverge: an installation of a build older than the release, made
\* without start.sh's export; the user confirms one install, the spawned
\* installer runs as a pipeline run on the release, the application
\* relaunches and goes on checking in the background.
InitConverge ==
  /\ Init
  /\ ~env.installer.set
  /\ files = {getInstallerPath, DmgPath(getInstallerPath)}

NextConverge ==
  \/ WhenReady
  \/ UserChecks
  \/ UserAnswers
  \/ FeedAnswers
  \/ StartupFire
  \/ IntervalFire
  \/ Advance
  \/ RelaunchTimerFires
  \/ Relaunched
  \/ ChildRuns
  \/ ResolveDmg
  \/ InstallerStage
  \/ CheckStamp
  \/ StampOpens
  \/ StampWritten

\* the application is one event loop and the installer one sequential
\* process: each of the two goes on as long as it has a step to take
ApplicationStep ==
  \/ WhenReady
  \/ FeedAnswers
  \/ StartupFire
  \/ IntervalFire
  \/ Advance
  \/ RelaunchTimerFires
  \/ Relaunched

InstallerStep ==
  \/ ChildRuns
  \/ ResolveDmg
  \/ InstallerStage
  \/ CheckStamp
  \/ StampOpens
  \/ StampWritten

FairnessConverge == WF_vars(ApplicationStep) /\ WF_vars(InstallerStep)

SpecConverge == InitConverge /\ [][NextConverge]_vars /\ FairnessConverge

\* the triggered pipeline run has succeeded
TriggeredRunSucceeded ==
  /\ relaunches >= 1
  /\ run.state = "done"
  /\ run.exit = <<0>>

\* a running process reports the installed build and no update
ReportsInstalledBuild ==
  /\ appState = "ready"
  /\ currentBuildNumber = <<BuildField(env.pkg)>>
  /\ latestRemoteBuild = currentBuildNumber
  /\ ~updateAvailable

\* C34: the update loop converges.  Once the user has confirmed an install
\* for the remote build and the pipeline run the trigger started has
\* succeeded, a running application process eventually reports a local
\* build equal to the remote build and reports no available update.
C34_UpdateLoopConverges == TriggeredRunSucceeded ~> ReportsInstalledBuild

\* the same loop does converge when the installer ends before the relaunch
C34_CanConverge == TriggeredRunSucceeded /\ ReportsInstalledBuild

\* ------------------------------------------------------------------------
\* The install directory of a triggered run
\* ------------------------------------------------------------------------

\* what CODEX_INSTALL_DIR can be in an environment: unset, empty, or a
\* directory of the user's choice
InstallDirVars ==
  { [set |-> FALSE, value |-> <<>>],
    [set |-> TRUE, value |-> <<>>],
    [set |-> TRUE, value |-> <<"opt", "codex">>] }

\* lines 326-329 and 472: start.sh, which the desktop entry executes,
\* exports CODEX_LINUX_INSTALLER_PATH and nothing else of the install, so
\* the application has the CODEX_INSTALL_DIR of whatever launched start.sh:
\* the desktop session, where it is unset, or a shell that still has the
\* value of the install
LaunchVars(original) == {[set |-> FALSE, value |-> <<>>], original}

\* SpecInstallDir: the application was installed by
\* /home/src/install.sh with any CODEX_INSTALL_DIR and is launched from
\* that install directory through start.sh; the user asks for a check,
\* confirms the install, and the spawned installer runs.
InitInstallDir ==
  /\ InitState
  /\ \E original \in InstallDirVars, i \in Installations :
       /\ i.installer.set
       /\ env \in {[installer |-> i.installer, pkg |-> i.pkg,
                    launchedFrom |-> INSTALL_DIR(i.installer.value, original),
                    CODEX_INSTALL_DIR |-> v] : v \in LaunchVars(original)}
  /\ files = {getInstallerPath, DmgPath(getInstallerPath)}
  /\ handlers = originalHandle(NoHandlers, MessageFromView,
                  patchedHandle(MessageFromView, AppHandler(MessageFromView)))
  /\ menu = PatchedMenu(MenuBar)

SpecInstallDir == InitInstallDir /\ [][NextTrigger]_vars

\* the run of the installer that the updater spawned
TriggeredRun ==
  /\ children # <<>>
  /\ run.state # "idle"
  /\ run.script = getInstallerPath

\* C35: a pipeline run triggered by the updater installs into the install
\* directory the running application was launched from, also when that
\* directory was chosen with CODEX_INSTALL_DIR at the original install.
C35_TriggeredRunSameInstallDir ==
  TriggeredRun =>
    INSTALL_DIR(run.script, run.world.CODEX_INSTALL_DIR) = env.launchedFrom

\* ------------------------------------------------------------------------
\* Properties of the install directory and of the cached disk image
\* ------------------------------------------------------------------------

\* the stages of main before download_electron, and the stages from it on
PreRuntimeStages ==
  {"check_deps", "get_dmg", "extract_dmg", "detect_electron_version",
   "check_stamp", "asar_extract", "strip_sparkle", "build_native_modules",
   "inject_updater", "asar_pack"}

InstallStages ==
  {"download_electron", "extract_webview", "install_app",
   "create_start_script", "install_desktop_entry", "write_stamp"}

\* the run is, or has ended, in a stage before download_electron
BeforeRuntime == run.state # "idle" /\ Stages[run.pc] \in PreRuntimeStages

\* C36: the install directory is modified only from download_electron
\* onward.  While a run is in source resolution, extraction, version
\* detection, the stamp test, unpacking, stripping, native rebuild,
\* injection or repack, none of the stages that write to $INSTALL_DIR has
\* run in it, and no step it takes there (a stage that succeeds, a command
\* that fails, the death of the process, the short-circuit) changes a file
\* of the install directory or the stamp.
C36_InstallDirUntouchedBeforeRuntime ==
  /\ [](BeforeRuntime => StagesRun \cap InstallStages = {})
  /\ [][(Running /\ Stage \in PreRuntimeStages) =>
          (installDir' = installDir /\ stampFile' = stampFile)]_vars

\* a run over an earlier installation has aborted in the repack, and one
\* has died in the native rebuild
C36_Witness ==
  /\ run.state \in {"failed", "killed"}
  /\ Stages[run.pc] \in {"asar_pack", "build_native_modules"}
  /\ installDir.app # EmptyInstallDir.app
  /\ stampFile.present

\* the run goes on with the Codex.dmg it found next to the script
ReusesCache == PastGetDmg /\ ~NamesDmg(run.args) /\ ~run.fetched

\* C37: a cached source bundle that a run reuses is a completely
\* downloaded one: when an earlier run was killed or failed during the
\* download, the next run does not take the file it left at the cache path
\* for its source bundle.
C37_ReusedCacheIsComplete == ReusesCache => run.source # <<TruncatedFile>>

\* ------------------------------------------------------------------------
\* Properties of the launch script
\* ------------------------------------------------------------------------

\* every launch that was started has left start_webview_server_if_needed,
\* and every server has bound the port or given up
AllLaunchesPastStart ==
  /\ \E l \in Launches : webview.pc[l] = "done"
  /\ \A l \in Launches : webview.pc[l] \in {"idle", "done"}
  /\ \A pid \in DOMAIN webview.servers : webview.servers[pid] # "starting"

PidFileNamesLiveServer ==
  /\ webview.pidFile # <<>>
  /\ webview.pidFile[1] \in DOMAIN webview.servers
  /\ webview.servers[webview.pidFile[1]] = "listening"

\* C38: in the launch script with the pid file and the lock directory, any
\* interleaving of concurrent launches starts at most one server process,
\* and after all launches have passed the start step the pid file names the
\* live server process.
C38_OneServerPidFileLive ==
  /\ Len(webview.servers) <= 1
  /\ AllLaunchesPastStart => PidFileNamesLiveServer

\* the second half alone
PidFileLiveAfterLaunches == AllLaunchesPastStart => PidFileNamesLiveServer

====
